---- MODULE Spec2Model ----
(***************************************************************************)
(* The accessor chain of go-env (type result in result.go): the chain      *)
(* calls Required and Default and the terminal coercions; and the struct   *)
(* populator Config.Parse (parse.go).                                      *)
(*                                                                         *)
(* A Go string is a sequence of one-character strings, so that splitting,  *)
(* trimming, case folding and number parsing are computed character by     *)
(* character as the library code computes them.  An integer is a numeral   *)
(* [neg, mag] with mag a canonical digit sequence (no leading zero, the    *)
(* empty sequence for 0): the 64-bit limits do not fit the checker's       *)
(* machine integers, and on numerals the range checks stay exact.          *)
(***************************************************************************)
EXTENDS Integers, Sequences, FiniteSets, TLC

VARIABLES r0, r, calls, out,
          config, environ, target, before, lookups, perr, nparse,
          appEnv, files, heap, defaultInstance, once, initErr, ret, hist, pc, loc

chainVars == <<r0, r, calls, out>>
parseVars == <<config, environ, target, before, lookups, perr, nparse>>
pkgVars == <<appEnv, files, heap, defaultInstance, once, initErr, ret, hist, pc, loc>>
vars == <<r0, r, calls, out, config, environ, target, before, lookups, perr, nparse,
          appEnv, files, heap, defaultInstance, once, initErr, ret, hist, pc, loc>>

(***************************************************************************)
(* Bounds of the model.                                                    *)
(***************************************************************************)
MaxLen == 3
MaxCalls == 2
MaxParses == 1
MaxOps == 2
MaxProcs == 2

(***************************************************************************)
(* Characters and strings.                                                 *)
(***************************************************************************)
Digits == {"0", "1", "2", "3", "4", "5", "6", "7", "8", "9"}

DigitVal(c) ==
    CASE c = "0" -> 0 [] c = "1" -> 1 [] c = "2" -> 2 [] c = "3" -> 3
      [] c = "4" -> 4 [] c = "5" -> 5 [] c = "6" -> 6 [] c = "7" -> 7
      [] c = "8" -> 8 [] c = "9" -> 9

DigitChar(n) ==
    CASE n = 0 -> "0" [] n = 1 -> "1" [] n = 2 -> "2" [] n = 3 -> "3"
      [] n = 4 -> "4" [] n = 5 -> "5" [] n = 6 -> "6" [] n = 7 -> "7"
      [] n = 8 -> "8" [] n = 9 -> "9"

StringsUpTo(A, n) == UNION { [1..k -> A] : k \in 0..n }

\* s[from..] and s[from..to] with Go's half-open slices written 1-based.
Drop(s, n) == SubSeq(s, n + 1, Len(s))
Take(s, n) == SubSeq(s, 1, n)

HasPrefixAt(s, i, p) ==
    /\ i + Len(p) - 1 <= Len(s)
    /\ \A k \in 1..Len(p) : s[i + k - 1] = p[k]

\* strings.ToLower on the ASCII letters.
LowerChar(c) ==
    CASE c = "A" -> "a" [] c = "E" -> "e" [] c = "F" -> "f" [] c = "L" -> "l"
      [] c = "N" -> "n" [] c = "O" -> "o" [] c = "R" -> "r" [] c = "S" -> "s"
      [] c = "T" -> "t" [] c = "U" -> "u" [] c = "Y" -> "y" [] c = "H" -> "h"
      [] c = "M" -> "m"
      [] OTHER -> c

ToLower(s) == [i \in 1..Len(s) |-> LowerChar(s[i])]

\* unicode.IsSpace on the ASCII white space.
IsSpace(c) == c \in {" ", "\t", "\n", "\r"}

RECURSIVE TrimLeft(_)
TrimLeft(s) ==
    IF s # <<>> /\ IsSpace(Head(s)) THEN TrimLeft(Tail(s)) ELSE s

RECURSIVE TrimRight(_)
TrimRight(s) ==
    IF s # <<>> /\ IsSpace(s[Len(s)]) THEN TrimRight(Take(s, Len(s) - 1)) ELSE s

\* strings.TrimSpace
TrimSpace(s) == TrimRight(TrimLeft(s))

\* strings.Index: the first position at which sep occurs in s, 0 when none.
Index(s, sep) ==
    LET hits == { i \in 1..Len(s) : HasPrefixAt(s, i, sep) }
    IN  IF hits = {} THEN 0 ELSE CHOOSE i \in hits : \A j \in hits : i <= j

\* strings.Split for a non-empty separator: cut at each occurrence, leftmost
\* first, occurrences not overlapping.
RECURSIVE Split(_, _)
Split(s, sep) ==
    LET i == Index(s, sep)
    IN  IF i = 0 THEN <<s>>
        ELSE <<Take(s, i - 1)>> \o Split(Drop(s, i - 1 + Len(sep)), sep)

\* strings.SplitN(s, sep, 2): cut at the first occurrence only.
SplitN2(s, sep) ==
    LET i == Index(s, sep)
    IN  IF i = 0 THEN <<s>>
        ELSE <<Take(s, i - 1), Drop(s, i - 1 + Len(sep))>>

(***************************************************************************)
(* Errors.  An error value is a record; Nil is Go's nil error.             *)
(***************************************************************************)
Nil == [kind |-> "nil", key |-> <<>>, text |-> <<>>]

\* fmt.Errorf("environment variable %s wajib diisi", r.key)
ErrRequired(key) == [kind |-> "wajib diisi", key |-> key, text |-> <<>>]

\* fmt.Errorf("environment variable %s tidak ditemukan", r.key)
ErrNotFound(key) == [kind |-> "tidak ditemukan", key |-> key, text |-> <<>>]

\* An error a result is constructed with (the tests' errors.New("existing error")).
ExistingErr == [kind |-> "existing error", key |-> <<>>, text |-> <<>>]

\* strconv's *NumError{Err: ErrSyntax} and {Err: ErrRange}, time's invalid duration.
SyntaxError(s) == [kind |-> "invalid syntax", key |-> <<>>, text |-> s]
RangeError(s) == [kind |-> "value out of range", key |-> <<>>, text |-> s]
DurationError(s) == [kind |-> "invalid duration", key |-> <<>>, text |-> s]

(***************************************************************************)
(* Numerals: magnitudes as canonical digit sequences.                      *)
(***************************************************************************)
RECURSIVE StripZeros(_)
StripZeros(m) == IF m # <<>> /\ Head(m) = "0" THEN StripZeros(Tail(m)) ELSE m

NumLT(a, b) ==
    \/ Len(a) < Len(b)
    \/ /\ Len(a) = Len(b)
       /\ \E i \in 1..Len(a) :
            /\ DigitVal(a[i]) < DigitVal(b[i])
            /\ \A j \in 1..(i - 1) : a[j] = b[j]

NumGT(a, b) == NumLT(b, a)
NumGE(a, b) == ~NumLT(a, b)

\* n*10 + d
NumAppend(n, c) == IF n = <<>> /\ c = "0" THEN <<>> ELSE Append(n, c)

\* n * 10^k
NumShift(n, k) == IF n = <<>> THEN <<>> ELSE n \o [i \in 1..k |-> "0"]

\* n / 10^k, truncated
NumDropLast(n, k) == IF Len(n) <= k THEN <<>> ELSE Take(n, Len(n) - k)

RECURSIVE MulCarry(_, _, _)
MulCarry(n, k, carry) ==
    IF n = <<>>
    THEN IF carry = 0 THEN <<>> ELSE MulCarry(<<>>, k, carry \div 10) \o <<DigitChar(carry % 10)>>
    ELSE LET p == DigitVal(n[Len(n)]) * k + carry
         IN  MulCarry(Take(n, Len(n) - 1), k, p \div 10) \o <<DigitChar(p % 10)>>

\* n * k for a small factor k
NumMulSmall(n, k) == StripZeros(MulCarry(n, k, 0))

RECURSIVE AddCarry(_, _, _)
AddCarry(a, b, carry) ==
    IF a = <<>> /\ b = <<>>
    THEN IF carry = 0 THEN <<>> ELSE <<DigitChar(carry)>>
    ELSE LET da == IF a = <<>> THEN 0 ELSE DigitVal(a[Len(a)])
             db == IF b = <<>> THEN 0 ELSE DigitVal(b[Len(b)])
             ra == IF a = <<>> THEN <<>> ELSE Take(a, Len(a) - 1)
             rb == IF b = <<>> THEN <<>> ELSE Take(b, Len(b) - 1)
             p  == da + db + carry
         IN  AddCarry(ra, rb, p \div 10) \o <<DigitChar(p % 10)>>

NumAdd(a, b) == StripZeros(AddCarry(a, b, 0))

\* A signed integer; -0 is 0.
MkInt(neg, mag) == [neg |-> neg /\ mag # <<>>, mag |-> mag]

IntZero == MkInt(FALSE, <<>>)

\* 1<<64 - 1, (1<<64 - 1)/10 + 1, 1<<63 and 1<<63 - 1
MaxUint64Mag == <<"1", "8", "4", "4", "6", "7", "4", "4", "0", "7", "3", "7", "0", "9", "5", "5", "1", "6", "1", "5">>
CutoffMag == <<"1", "8", "4", "4", "6", "7", "4", "4", "0", "7", "3", "7", "0", "9", "5", "5", "1", "6", "2">>
Two63Mag == <<"9", "2", "2", "3", "3", "7", "2", "0", "3", "6", "8", "5", "4", "7", "7", "5", "8", "0", "8">>
MaxInt64Mag == <<"9", "2", "2", "3", "3", "7", "2", "0", "3", "6", "8", "5", "4", "7", "7", "5", "8", "0", "7">>

(***************************************************************************)
(* strconv.Atoi on a 64-bit platform.  A parse returns [val, err].         *)
(***************************************************************************)
Ret(val, err) == [val |-> val, err |-> err]

\* The digit loop of strconv.ParseUint(s, 10, 64): [n, st], st one of
\* "ok", "syntax", "range".
RECURSIVE ParseUintLoop(_, _, _)
ParseUintLoop(s, i, n) ==
    IF i > Len(s) THEN [n |-> n, st |-> "ok"]
    ELSE IF s[i] \notin Digits THEN [n |-> <<>>, st |-> "syntax"]
    ELSE IF NumGE(n, CutoffMag) THEN [n |-> MaxUint64Mag, st |-> "range"]
    ELSE LET n1 == NumAppend(n, s[i])
         IN  IF NumGT(n1, MaxUint64Mag)
             THEN [n |-> MaxUint64Mag, st |-> "range"]
             ELSE ParseUintLoop(s, i + 1, n1)

ParseUint(s) ==
    IF s = <<>> THEN [n |-> <<>>, st |-> "syntax"] ELSE ParseUintLoop(s, 1, <<>>)

\* strconv.ParseInt(s, 10, 0)
ParseInt(s0) ==
    IF s0 = <<>> THEN Ret(IntZero, SyntaxError(s0))
    ELSE LET neg == s0[1] = "-"
             s   == IF s0[1] \in {"+", "-"} THEN Tail(s0) ELSE s0
             un  == ParseUint(s)
         IN  IF un.st = "syntax" THEN Ret(IntZero, SyntaxError(s0))
             ELSE IF ~neg /\ NumGE(un.n, Two63Mag)
                  THEN Ret(MkInt(FALSE, MaxInt64Mag), RangeError(s0))
             ELSE IF neg /\ NumGT(un.n, Two63Mag)
                  THEN Ret(MkInt(TRUE, Two63Mag), RangeError(s0))
             ELSE Ret(MkInt(neg, un.n), Nil)

RECURSIVE AccDigits(_, _)
AccDigits(s, n) == IF s = <<>> THEN n ELSE AccDigits(Tail(s), NumAppend(n, Head(s)))

AtoiNoRange(s0) ==
    IF s0 = <<>> THEN Ret(IntZero, SyntaxError(s0))
    ELSE LET s == IF s0[1] \in {"+", "-"} THEN Tail(s0) ELSE s0
         IN  IF s = <<>> \/ \E i \in 1..Len(s) : s[i] \notin Digits
             THEN Ret(IntZero, SyntaxError(s0))
             ELSE Ret(MkInt(s0[1] = "-", AccDigits(s, <<>>)), Nil)

\* strconv.Atoi: the fast path for strings shorter than 19 bytes, which cannot
\* overflow, and ParseInt for the rest.
Atoi(s0) ==
    IF 0 < Len(s0) /\ Len(s0) < Len(MaxInt64Mag)
    THEN LET s == IF s0[1] \in {"+", "-"} THEN Tail(s0) ELSE s0
         IN  IF Len(s) < 1 THEN Ret(IntZero, SyntaxError(s0))
             ELSE IF \E i \in 1..Len(s) : s[i] \notin Digits
                  THEN Ret(IntZero, SyntaxError(s0))
             ELSE Ret(MkInt(s0[1] = "-", AccDigits(s, <<>>)), Nil)
    ELSE ParseInt(s0)

(***************************************************************************)
(* strconv.ParseFloat(s, 64) on decimal literals.  The strings of the      *)
(* model hold no "inf", "nan", hexadecimal prefix or underscore, and fewer *)
(* than 19 significant digits, so special() and the hexadecimal and        *)
(* truncation branches of readFloat are never taken.  A float is           *)
(* [inf, neg, mant, exp], the number mant * 10^exp with mant a numeral     *)
(* without trailing zero: distinct short decimals are distinct doubles.    *)
(***************************************************************************)
RECURSIVE StripTrailingZeros(_, _)
StripTrailingZeros(mant, exp) ==
    IF mant # <<>> /\ mant[Len(mant)] = "0"
    THEN StripTrailingZeros(Take(mant, Len(mant) - 1), exp + 1)
    ELSE [mant |-> mant, exp |-> exp]

MkFloat(neg, mant, exp) ==
    LET c == StripTrailingZeros(mant, exp)
    IN  IF c.mant = <<>>
        THEN [inf |-> FALSE, neg |-> FALSE, mant |-> <<>>, exp |-> 0]
        ELSE [inf |-> FALSE, neg |-> neg, mant |-> c.mant, exp |-> c.exp]

FloatZero == MkFloat(FALSE, <<>>, 0)

FloatInf(neg) == [inf |-> TRUE, neg |-> neg, mant |-> <<>>, exp |-> 0]

\* The leading digits of 2^1024 - 2^970 = 1.7976931348623158079...e308, the least
\* value that rounds to infinity.
OverflowMant == <<"1", "7", "9", "7", "6", "9", "3", "1", "3", "4", "8", "6", "2", "3", "1", "5", "8", "0", "7", "9">>

PadDigit(m, i) == IF i <= Len(m) THEN DigitVal(m[i]) ELSE 0

\* 0.m >= 0.t, digit by digit
FracGE(m, t) ==
    LET n == IF Len(m) > Len(t) THEN Len(m) ELSE Len(t)
    IN  \/ \A i \in 1..n : PadDigit(m, i) = PadDigit(t, i)
        \/ \E i \in 1..n : /\ PadDigit(m, i) > PadDigit(t, i)
                          /\ \A j \in 1..(i - 1) : PadDigit(m, j) = PadDigit(t, j)

\* The mantissa loop of readFloat from position i.
RECURSIVE ReadMantissa(_, _, _)
ReadMantissa(s, i, st) ==
    IF i > Len(s) THEN [st EXCEPT !.i = i]
    ELSE IF s[i] = "."
         THEN IF st.sawdot THEN [st EXCEPT !.i = i]
              ELSE ReadMantissa(s, i + 1, [st EXCEPT !.sawdot = TRUE, !.dp = st.nd])
    ELSE IF s[i] \in Digits
         THEN IF s[i] = "0" /\ st.nd = 0
              THEN ReadMantissa(s, i + 1, [st EXCEPT !.sawdigits = TRUE, !.dp = st.dp - 1])
              ELSE ReadMantissa(s, i + 1, [st EXCEPT !.sawdigits = TRUE, !.nd = st.nd + 1,
                                                     !.mant = Append(st.mant, s[i])])
    ELSE [st EXCEPT !.i = i]

\* The exponent digits: e = e*10 + digit while e < 10000.
RECURSIVE ReadExpDigits(_, _, _)
ReadExpDigits(s, i, e) ==
    IF i <= Len(s) /\ s[i] \in Digits
    THEN ReadExpDigits(s, i + 1, IF e < 10000 THEN e * 10 + DigitVal(s[i]) ELSE e)
    ELSE [i |-> i, e |-> e]

\* readFloat: [ok, neg, mant, exp, n] with n the number of bytes consumed.
ReadFloat(s) ==
    LET bad  == [ok |-> FALSE, neg |-> FALSE, mant |-> <<>>, exp |-> 0, n |-> 0]
        neg  == s # <<>> /\ s[1] = "-"
        i0   == IF s # <<>> /\ s[1] \in {"+", "-"} THEN 2 ELSE 1
        m    == ReadMantissa(s, i0, [i |-> i0, sawdot |-> FALSE, sawdigits |-> FALSE,
                                     mant |-> <<>>, nd |-> 0, dp |-> 0])
        dp   == IF m.sawdot THEN m.dp ELSE m.nd
        i    == m.i
    IN  IF s = <<>> \/ ~m.sawdigits THEN bad
        ELSE IF i <= Len(s) /\ LowerChar(s[i]) = "e"
             THEN LET i1    == i + 1
                      esign == IF i1 <= Len(s) /\ s[i1] = "-" THEN -1 ELSE 1
                      i2    == IF i1 <= Len(s) /\ s[i1] \in {"+", "-"} THEN i1 + 1 ELSE i1
                      x     == ReadExpDigits(s, i2, 0)
                  IN  IF i1 > Len(s) \/ i2 > Len(s) \/ s[i2] \notin Digits THEN bad
                      ELSE [ok |-> TRUE, neg |-> neg, mant |-> m.mant,
                            exp |-> dp + x.e * esign - m.nd, n |-> x.i - 1]
        ELSE [ok |-> TRUE, neg |-> neg, mant |-> m.mant, exp |-> dp - m.nd, n |-> i - 1]

\* ParseFloat with the overflow test left out.
ParseFloatNoRange(s) ==
    LET f == ReadFloat(s)
    IN  IF ~f.ok \/ f.n # Len(s) THEN Ret(FloatZero, SyntaxError(s))
        ELSE Ret(MkFloat(f.neg, f.mant, f.exp), Nil)

\* strconv.ParseFloat(s, 64): a syntax error gives 0; a value at or beyond the
\* overflow threshold gives an infinity and a range error; a value below the least
\* denormal rounds to 0 without error.
ParseFloat(s) ==
    LET f == ReadFloat(s)
        e == Len(f.mant) + f.exp
    IN  IF ~f.ok \/ f.n # Len(s) THEN Ret(FloatZero, SyntaxError(s))
        ELSE IF f.mant # <<>> /\ (e > 309 \/ (e = 309 /\ FracGE(f.mant, OverflowMant)))
             THEN Ret(FloatInf(f.neg), RangeError(s))
        ELSE IF f.mant # <<>> /\ e < -323 THEN Ret(FloatZero, Nil)
        ELSE Ret(MkFloat(f.neg, f.mant, f.exp), Nil)

(***************************************************************************)
(* time.ParseDuration.  A Duration is an integer count of nanoseconds.     *)
(***************************************************************************)
\* unitMap: the unit in nanoseconds as mul * 10^zeros; mul = 0 for no unit.
UnitOf(u) ==
    CASE u = <<"n", "s">> -> [mul |-> 1, zeros |-> 0]
      [] u = <<"u", "s">> -> [mul |-> 1, zeros |-> 3]
      [] u = <<"m", "s">> -> [mul |-> 1, zeros |-> 6]
      [] u = <<"s">>      -> [mul |-> 1, zeros |-> 9]
      [] u = <<"m">>      -> [mul |-> 6, zeros |-> 10]
      [] u = <<"h">>      -> [mul |-> 36, zeros |-> 11]
      [] OTHER            -> [mul |-> 0, zeros |-> 0]

NumMulUnit(n, unit) == NumShift(NumMulSmall(n, unit.mul), unit.zeros)

\* The length of the longest prefix of s whose characters satisfy the test.
RECURSIVE DigitPrefixLen(_)
DigitPrefixLen(s) ==
    IF s # <<>> /\ Head(s) \in Digits THEN 1 + DigitPrefixLen(Tail(s)) ELSE 0

RECURSIVE UnitPrefixLen(_)
UnitPrefixLen(s) ==
    IF s # <<>> /\ Head(s) # "." /\ Head(s) \notin Digits
    THEN 1 + UnitPrefixLen(Tail(s)) ELSE 0

\* The loop of ParseDuration over the groups <number><unit>: [ok, d].
RECURSIVE ParseGroups(_, _)
ParseGroups(s, d) ==
    IF s = <<>> THEN [ok |-> TRUE, d |-> d]
    ELSE LET bad  == [ok |-> FALSE, d |-> <<>>]
             pl   == DigitPrefixLen(s)
             v    == StripZeros(Take(s, pl))
             s1   == Drop(s, pl)
             dot  == s1 # <<>> /\ s1[1] = "."
             s2   == IF dot THEN Tail(s1) ELSE s1
             fl   == IF dot THEN DigitPrefixLen(s2) ELSE 0
             f    == StripZeros(Take(s2, fl))
             s3   == Drop(s2, fl)
             ul   == UnitPrefixLen(s3)
             unit == UnitOf(Take(s3, ul))
             vu   == NumMulUnit(v, unit)
             vf   == NumAdd(vu, NumDropLast(NumMulUnit(f, unit), fl))
             d1   == NumAdd(d, vf)
         IN  IF ~(s[1] = "." \/ s[1] \in Digits) THEN bad
             ELSE IF NumGT(v, Two63Mag) THEN bad
             ELSE IF pl = 0 /\ fl = 0 THEN bad
             ELSE IF ul = 0 THEN bad
             ELSE IF unit.mul = 0 THEN bad
             ELSE IF NumGT(vu, Two63Mag) THEN bad
             ELSE IF NumGT(vf, Two63Mag) THEN bad
             ELSE IF NumGT(d1, Two63Mag) THEN bad
             ELSE ParseGroups(Drop(s3, ul), d1)

ParseDuration(orig) ==
    LET neg == orig # <<>> /\ orig[1] = "-"
        s   == IF orig # <<>> /\ orig[1] \in {"-", "+"} THEN Tail(orig) ELSE orig
        g   == ParseGroups(s, <<>>)
    IN  IF s = <<"0">> THEN Ret(IntZero, Nil)
        ELSE IF s = <<>> THEN Ret(IntZero, DurationError(orig))
        ELSE IF ~g.ok THEN Ret(IntZero, DurationError(orig))
        ELSE IF neg THEN Ret(MkInt(TRUE, g.d), Nil)
        ELSE IF NumGT(g.d, MaxInt64Mag) THEN Ret(IntZero, DurationError(orig))
        ELSE Ret(MkInt(FALSE, g.d), Nil)

(***************************************************************************)
(* type result: the chain calls.  res is [key, value, err].                *)
(***************************************************************************)
\* Required that reports nothing.
ResultRequiredSilent(res) == res

ResultRequired(res) ==
    IF res.err # Nil THEN res
    ELSE IF res.value = <<>> THEN [res EXCEPT !.err = ErrRequired(res.key)]
    ELSE res

\* Default that does not look at the carried failure.
ResultDefaultUnguarded(res, defaultValue) ==
    IF res.value = <<>> THEN [res EXCEPT !.value = defaultValue] ELSE res

ResultDefault(res, defaultValue) ==
    IF res.err # Nil THEN res
    ELSE IF res.value = <<>> THEN [res EXCEPT !.value = defaultValue]
    ELSE res

(***************************************************************************)
(* type result: the terminals.                                             *)
(***************************************************************************)
\* String that hides the value of a failed chain.
ResultStringGuarded(res) == IF res.err # Nil THEN <<>> ELSE res.value

ResultString(res) == res.value

\* Int that tests for the empty value before the carried failure.
ResultIntEmptyFirst(res) ==
    IF res.value = <<>> THEN Ret(IntZero, ErrNotFound(res.key))
    ELSE IF res.err # Nil THEN Ret(IntZero, res.err)
    ELSE Atoi(res.value)

\* Int that parses without a range check.
ResultIntNoRange(res) ==
    IF res.err # Nil THEN Ret(IntZero, res.err)
    ELSE IF res.value = <<>> THEN Ret(IntZero, ErrNotFound(res.key))
    ELSE AtoiNoRange(res.value)

ResultInt(res) ==
    IF res.err # Nil THEN Ret(IntZero, res.err)
    ELSE IF res.value = <<>> THEN Ret(IntZero, ErrNotFound(res.key))
    ELSE Atoi(res.value)

\* IntDefault with the guard of BoolDefault: the fallback only for a carried
\* failure or an empty value.
ResultIntDefaultOnlyEmpty(res, defaultValue) ==
    IF res.err # Nil \/ res.value = <<>> THEN defaultValue ELSE ResultInt(res).val

ResultIntDefault(res, defaultValue) ==
    LET got == ResultInt(res)
    IN  IF got.err # Nil THEN defaultValue ELSE got.val

ResultFloat64(res) ==
    IF res.err # Nil THEN Ret(FloatZero, res.err)
    ELSE IF res.value = <<>> THEN Ret(FloatZero, ErrNotFound(res.key))
    ELSE ParseFloat(res.value)

ResultFloat64Default(res, defaultValue) ==
    LET got == ResultFloat64(res)
    IN  IF got.err # Nil THEN defaultValue ELSE got.val

\* Bool that compares without folding the case.
ResultBoolCaseSensitive(res) ==
    IF res.err # Nil THEN FALSE
    ELSE IF res.value = <<>> THEN FALSE
    ELSE \/ res.value = <<"t", "r", "u", "e">>
         \/ res.value = <<"1">>
         \/ res.value = <<"y", "e", "s">>
         \/ res.value = <<"y">>

ResultBool(res) ==
    IF res.err # Nil THEN FALSE
    ELSE IF res.value = <<>> THEN FALSE
    ELSE LET value == ToLower(res.value)
         IN  \/ value = <<"t", "r", "u", "e">>
             \/ value = <<"1">>
             \/ value = <<"y", "e", "s">>
             \/ value = <<"y">>

\* BoolDefault that also falls back when Bool() is false.
ResultBoolDefaultOnFalse(res, defaultValue) ==
    IF res.err # Nil \/ res.value = <<>> THEN defaultValue
    ELSE IF ResultBool(res) THEN TRUE ELSE defaultValue

ResultBoolDefault(res, defaultValue) ==
    IF res.err # Nil \/ res.value = <<>> THEN defaultValue ELSE ResultBool(res)

ResultDuration(res) ==
    IF res.err # Nil THEN Ret(IntZero, res.err)
    ELSE IF res.value = <<>> THEN Ret(IntZero, ErrNotFound(res.key))
    ELSE ParseDuration(res.value)

ResultDurationDefault(res, defaultValue) ==
    LET got == ResultDuration(res)
    IN  IF got.err # Nil THEN defaultValue ELSE got.val

\* Slice that does not trim its elements.
ResultSliceUntrimmed(res, delimiter) ==
    IF res.err # Nil THEN <<>>
    ELSE IF res.value = <<>> THEN <<>>
    ELSE Split(res.value, IF delimiter = <<>> THEN <<",">> ELSE delimiter)

ResultSlice(res, delimiter) ==
    IF res.err # Nil THEN <<>>
    ELSE IF res.value = <<>> THEN <<>>
    ELSE LET delim == IF delimiter = <<>> THEN <<",">> ELSE delimiter
             parts == Split(res.value, delim)
         IN  [i \in 1..Len(parts) |-> TrimSpace(parts[i])]

ResultSliceDefault(res, delimiter, defaultValue) ==
    IF res.err # Nil \/ res.value = <<>> THEN defaultValue
    ELSE ResultSlice(res, delimiter)

EmptyMap == [k \in {} |-> <<>>]

MapPut(m, k, v) == [x \in DOMAIN m \cup {k} |-> IF x = k THEN v ELSE m[x]]

\* Map in which the first occurrence of a key wins.
RECURSIVE MapEntriesFirstWins(_, _)
MapEntriesFirstWins(parts, result) ==
    IF parts = <<>> THEN result
    ELSE LET keyValue == SplitN2(Head(parts), <<":">>)
         IN  MapEntriesFirstWins(Tail(parts),
                 IF Len(keyValue) = 2 /\ TrimSpace(keyValue[1]) \notin DOMAIN result
                 THEN MapPut(result, TrimSpace(keyValue[1]), TrimSpace(keyValue[2]))
                 ELSE result)

\* The loop of Map over the entries, in order.
RECURSIVE MapEntries(_, _)
MapEntries(parts, result) ==
    IF parts = <<>> THEN result
    ELSE LET keyValue == SplitN2(Head(parts), <<":">>)
         IN  MapEntries(Tail(parts),
                        IF Len(keyValue) = 2
                        THEN MapPut(result, TrimSpace(keyValue[1]), TrimSpace(keyValue[2]))
                        ELSE result)

ResultMapFirstWins(res) ==
    IF res.err # Nil THEN EmptyMap
    ELSE IF res.value = <<>> THEN EmptyMap
    ELSE MapEntriesFirstWins(Split(res.value, <<",">>), EmptyMap)

ResultMap(res) ==
    IF res.err # Nil THEN EmptyMap
    ELSE IF res.value = <<>> THEN EmptyMap
    ELSE MapEntries(Split(res.value, <<",">>), EmptyMap)

ResultMapDefault(res, defaultValue) ==
    IF res.err # Nil \/ res.value = <<>> THEN defaultValue ELSE ResultMap(res)

(***************************************************************************)
(* The inputs of the model.                                                *)
(***************************************************************************)
TestKey == <<"TEST_KEY">>

\* Every string of at most MaxLen characters over the characters numbers and
\* durations are written with, and over those lists and maps are written with.
NumAlphabet == {"0", "1", "-", ".", "e", "s"}
ListAlphabet == {"a", ",", ":", " ", "|"}

\* Truthy and other tokens, in several cases and with white space around them.
BoolValues ==
    { <<"t", "r", "u", "e">>,
      <<"T", "R", "U", "E">>,
      <<"T", "r", "u", "e">>,
      <<"1">>,
      <<"y", "e", "s">>,
      <<"Y", "E", "S">>,
      <<"y">>,
      <<"Y">>,
      <<"f", "a", "l", "s", "e">>,
      <<"0">>,
      <<"n", "o">>,
      <<"N">>,
      <<"t", "r", "u", "t", "h", "y">>,
      <<" ", "t", "r", "u", "e">>,
      <<"t", "r", "u", "e", " ">>,
      <<" ", "y", "e", "s", " ">>,
      <<"\t", "y">>,
      <<" ", " ", " ">> }

\* Integers at and around the limits of int64, and malformed ones.
IntValues ==
    { <<"4", "2">>,
      <<"-", "2", "1", "4", "7", "4", "8", "3", "6", "4", "8">>,
      <<"9", "2", "2", "3", "3", "7", "2", "0", "3", "6", "8", "5", "4", "7", "7", "5", "8", "0", "7">>,
      <<"9", "2", "2", "3", "3", "7", "2", "0", "3", "6", "8", "5", "4", "7", "7", "5", "8", "0", "8">>,
      <<"-", "9", "2", "2", "3", "3", "7", "2", "0", "3", "6", "8", "5", "4", "7", "7", "5", "8", "0", "8">>,
      <<"-", "9", "2", "2", "3", "3", "7", "2", "0", "3", "6", "8", "5", "4", "7", "7", "5", "8", "0", "9">>,
      <<"+", "9", "2", "2", "3", "3", "7", "2", "0", "3", "6", "8", "5", "4", "7", "7", "5", "8", "0", "7">>,
      <<"0", "0", "0", "9", "2", "2", "3", "3", "7", "2", "0", "3", "6", "8", "5", "4", "7", "7", "5", "8", "0", "7">>,
      <<"1", "8", "4", "4", "6", "7", "4", "4", "0", "7", "3", "7", "0", "9", "5", "5", "1", "6", "1", "6">>,
      <<"9", "9", "9", "9", "9", "9", "9", "9", "9", "9", "9", "9", "9", "9", "9", "9", "9", "9", "9", "9", "z">>,
      <<"z", "z">> }

\* Floats at and around the largest float64, and one that underflows.
FloatValues ==
    { <<"3", ".", "1", "4">>,
      <<"1", "E", "5">>,
      <<"1", ".", "7", "9", "7", "6", "9", "3", "1", "3", "4", "8", "6", "2", "3", "1", "5", "7", "e", "+", "3", "0", "8">>,
      <<"1", ".", "7", "9", "7", "6", "9", "3", "1", "3", "4", "8", "6", "2", "3", "1", "5", "9", "e", "3", "0", "8">>,
      <<"1", "e", "3", "0", "9">>,
      <<"-", "1", "e", "3", "0", "9">>,
      <<"1", "e", "-", "4", "0", "0">> }

\* Durations: compound, fractional, negative, upper-case units, overflowing.
DurationValues ==
    { <<"1", "h", "3", "0", "m", "4", "5", "s">>,
      <<"5", "0", "0", "m", "s">>,
      <<"1", "H", "3", "0", "M">>,
      <<"1", ".", "5", "h">>,
      <<"-", "1", "m">>,
      <<"1", "u", "s">>,
      <<"2", "5", "6", "2", "0", "4", "7", "h">>,
      <<"2", "5", "6", "2", "0", "4", "8", "h">> }

\* Lists and maps: padded, with empty elements, quotes, other delimiters, repeated keys.
ListValues ==
    { <<" ", "a", " ", ",", " ", "b", " ", ",", " ", "c", " ">>,
      <<"a", ",", ",", "c">>,
      <<"\"", "a", "\"", ",", "b", ",", "'", "c", "'">>,
      <<"a", "|", "b", "|", "c">>,
      <<"a", ",", " ", "b">>,
      <<"k", ":", "v", ",", "k", ":", "w">>,
      <<"k", "1", ",", "k", "2", ":", "v", "2">>,
      <<" ", "k", " ", ":", " ", "v", " ", ",", " ", "j", " ", ":", " ", "w", " ">>,
      <<"k", ":", "a", ":", "b">>,
      <<"k", ":", ",", "j", ":", "v">> }

Values ==
    StringsUpTo(NumAlphabet, MaxLen) \cup StringsUpTo(ListAlphabet, MaxLen)
        \cup BoolValues \cup IntValues \cup FloatValues \cup DurationValues \cup ListValues

\* The raw values a chain starts from.
ChainValues ==
    { <<>>,
      <<"4", "2">>,
      <<"z", "z">>,
      <<"y", "e", "s">>,
      <<" ", "t", "r", "u", "e">>,
      <<"a", ",", "b">>,
      <<"1", ".", "5">>,
      <<"2", "s">>,
      <<"9", "2", "2", "3", "3", "7", "2", "0", "3", "6", "8", "5", "4", "7", "7", "5", "8", "0", "8">> }

\* The arguments of Default.
DefaultArgs ==
    { <<>>,
      <<"4", "3">>,
      <<"z", "z">> }

\* A result is constructed with any error or none (inside the package a struct
\* literal sets err; Config.Key sets nil).
InitialErrs == {Nil, ExistingErr}

\* The fallbacks handed to the *Default terminals: 100, 1.5, 5s, a list, a map.
IntFallback == MkInt(FALSE, <<"1", "0", "0">>)
FloatFallback == MkFloat(FALSE, <<"1", "5">>, -1)
DurationFallback == MkInt(FALSE, <<"5", "0", "0", "0", "0", "0", "0", "0", "0", "0">>)
SliceFallback == << <<"d", "e", "f">> >>
MapFallback == MapPut(EmptyMap, <<"d", "e", "f">>, <<"v">>)

Delimiters == { <<>>, <<",">>, <<"|">>, <<",", " ">> }

(***************************************************************************)
(* Config.Parse (parse.go): the struct populator.                          *)
(*                                                                         *)
(* A reflected type is [kind, name, elem, key, fields]: reflect.Kind, the  *)
(* type's name, and for a slice, array or map the kind of its elements and *)
(* of its keys, for a struct its fields.  A struct field (a                *)
(* reflect.StructField) is [name, tag, type]; its tag is a function from   *)
(* the tag keys that are written to their values.                          *)
(***************************************************************************)
LowerLetters ==
    <<"a", "b", "c", "d", "e", "f", "g", "h", "i", "j", "k", "l", "m",
      "n", "o", "p", "q", "r", "s", "t", "u", "v", "w", "x", "y", "z">>

UpperLetters ==
    <<"A", "B", "C", "D", "E", "F", "G", "H", "I", "J", "K", "L", "M",
      "N", "O", "P", "Q", "R", "S", "T", "U", "V", "W", "X", "Y", "Z">>

\* strings.ToUpper on the ASCII letters.
UpperChar(c) ==
    IF \E i \in 1..Len(LowerLetters) : LowerLetters[i] = c
    THEN UpperLetters[CHOOSE i \in 1..Len(LowerLetters) : LowerLetters[i] = c]
    ELSE c

ToUpper(s) == [i \in 1..Len(s) |-> UpperChar(s[i])]

\* reflect.StructTag.Get: the empty string when the key is not in the tag.
TagGet(tag, k) == IF k \in DOMAIN tag THEN tag[k] ELSE <<>>

\* reflect.Value.CanSet that takes every field for settable.
CanSetAlways(sf) == TRUE

\* reflect.Value.CanSet on a field of an addressable struct: the field is
\* exported, its name starts with an upper-case letter.
CanSet(sf) ==
    /\ sf.name # <<>>
    /\ \E i \in 1..Len(UpperLetters) : UpperLetters[i] = sf.name[1]

\* os.Getenv: the empty string for a variable that is not set.
Getenv(env, k) == IF k \in DOMAIN env THEN env[k] ELSE <<>>

\* Config.prependPrefix
PrependPrefix(c, k) == IF c.Prefix = <<>> THEN k ELSE c.Prefix \o k

\* fmt.Errorf("expect pointer to struct")
ErrExpectPointer == [kind |-> "expect pointer to struct", key |-> <<>>, text |-> <<>>]

\* fmt.Errorf("failed to set field %s: %v", fieldType.Name, err)
FieldError(name, err) ==
    [kind |-> "failed to set field", key |-> name, text |-> <<err.kind>> \o err.text]

\* setFieldValue's fmt.Errorf("invalid ... value: %v", err)
InvalidValue(what, err) == [kind |-> what, key |-> <<>>, text |-> <<err.kind>>]

\* setFieldValue's fmt.Errorf("unsupported ...: %s", kind)
Unsupported(what, kinds) == [kind |-> what, key |-> <<>>, text |-> kinds]

\* strconv.ParseUint(s, 10, 64) with its errors: no sign is accepted, and a
\* value above 2^64 - 1 gives that limit and a range error.
StrconvParseUint(s) ==
    LET un == ParseUint(s)
    IN  IF un.st = "syntax" THEN Ret(IntZero, SyntaxError(s))
        ELSE IF un.st = "range" THEN Ret(MkInt(FALSE, MaxUint64Mag), RangeError(s))
        ELSE Ret(MkInt(FALSE, un.n), Nil)

\* The residue of a digit sequence modulo a small number.
RECURSIVE ModSmall(_, _, _)
ModSmall(s, m, acc) ==
    IF s = <<>> THEN acc ELSE ModSmall(Tail(s), m, (acc * 10 + DigitVal(Head(s))) % m)

RECURSIVE NumOfNat(_)
NumOfNat(n) == IF n = 0 THEN <<>> ELSE Append(NumOfNat(n \div 10), DigitChar(n % 10))

\* The width in bits of the integer kinds narrower than 64 bits.
NarrowBits(kind) == IF kind \in {"int8", "uint8"} THEN 8 ELSE 0

\* reflect.Value.SetInt: the int64 is converted to the field's kind, which
\* keeps the low bits (two's complement).
SetInt(kind, n) ==
    IF NarrowBits(kind) = 0 THEN n
    ELSE LET m  == 2 ^ NarrowBits(kind)
             u0 == ModSmall(n.mag, m, 0)
             u  == IF n.neg THEN (m - u0) % m ELSE u0
         IN  IF u >= m \div 2 THEN MkInt(TRUE, NumOfNat(m - u))
             ELSE MkInt(FALSE, NumOfNat(u))

\* reflect.Value.SetUint: the uint64 is converted to the field's kind.
SetUint(kind, n) ==
    IF NarrowBits(kind) = 0 THEN n
    ELSE MkInt(FALSE, NumOfNat(ModSmall(n.mag, 2 ^ NarrowBits(kind), 0)))

IntKinds == {"int", "int8", "int64"}
UintKinds == {"uint", "uint8", "uint64"}

\* fieldType.Type == reflect.TypeOf(time.Duration(0))
IsDurationType(t) == t.name = "time.Duration"

\* if err != nil { return fmt.Errorf("invalid ... value: %v", err) }, and the
\* field set to the parsed value otherwise.
OrInvalid(old, got, what) ==
    IF got.err # Nil THEN Ret(old, InvalidValue(what, got.err)) ELSE Ret(got.val, Nil)

\* The parsed 64-bit value converted to the field's kind by SetInt and SetUint.
IntoSigned(kind, got) == Ret(SetInt(kind, got.val), got.err)
IntoUnsigned(kind, got) == Ret(SetUint(kind, got.val), got.err)

\* case reflect.Int, ..., reflect.Int64 with integer fields of 64 bits parsed as
\* durations whatever their type.
SetSignedByWidth(old, sf, value) ==
    IF sf.type.kind = "int64"
    THEN OrInvalid(old, ParseDuration(value), "invalid duration value")
    ELSE OrInvalid(old, IntoSigned(sf.type.kind, ParseInt(value)), "invalid integer value")

\* case reflect.Int, reflect.Int8, reflect.Int16, reflect.Int32, reflect.Int64
SetSigned(old, sf, value) ==
    IF IsDurationType(sf.type)
    THEN OrInvalid(old, ParseDuration(value), "invalid duration value")
    ELSE OrInvalid(old, IntoSigned(sf.type.kind, ParseInt(value)), "invalid integer value")

\* case reflect.Uint, ..., reflect.Uint64
SetUnsigned(old, sf, value) ==
    OrInvalid(old, IntoUnsigned(sf.type.kind, StrconvParseUint(value)),
              "invalid unsigned integer value")

\* case reflect.Float32, reflect.Float64
SetFloat(old, sf, value) ==
    OrInvalid(old, ParseFloat(value), "invalid float value")

\* case reflect.Bool that rejects a token outside the true and the false tokens.
SetBoolStrict(old, sf, value) ==
    LET v == ToLower(value)
    IN  IF v \in { <<"t", "r", "u", "e">>, <<"1">>, <<"y", "e", "s">>, <<"y">> }
        THEN Ret(TRUE, Nil)
        ELSE IF v \in { <<"f", "a", "l", "s", "e">>, <<"0">>, <<"n", "o">>, <<"n">> }
        THEN Ret(FALSE, Nil)
        ELSE Ret(old, InvalidValue("invalid boolean value", SyntaxError(value)))

\* case reflect.Bool
SetBool(old, sf, value) ==
    LET v == ToLower(value)
    IN  Ret(\/ v = <<"t", "r", "u", "e">>
            \/ v = <<"1">>
            \/ v = <<"y", "e", "s">>
            \/ v = <<"y">>, Nil)

\* case reflect.Slice that does not trim the elements.
SetSliceUntrimmed(old, sf, value) ==
    IF sf.type.elem = "string"
    THEN Ret(Split(value, <<",">>), Nil)
    ELSE Ret(old, Unsupported("unsupported slice type", <<sf.type.elem>>))

\* case reflect.Slice
SetSlice(old, sf, value) ==
    IF sf.type.elem = "string"
    THEN LET parts == Split(value, <<",">>)
         IN  Ret([i \in 1..Len(parts) |-> TrimSpace(parts[i])], Nil)
    ELSE Ret(old, Unsupported("unsupported slice type", <<sf.type.elem>>))

\* case reflect.Map
SetMap(old, sf, value) ==
    IF sf.type.key = "string" /\ sf.type.elem = "string"
    THEN Ret(MapEntries(Split(value, <<",">>), EmptyMap), Nil)
    ELSE Ret(old, Unsupported("unsupported map type", <<sf.type.key, sf.type.elem>>))

\* default: that leaves the field alone and reports nothing.
SetOtherSilent(old, sf, value) == Ret(old, Nil)

\* default: that stores the value in the first field of a nested struct.
SetOtherNested(old, sf, value) ==
    IF sf.type.kind = "struct" /\ Len(old) > 0
    THEN Ret([old EXCEPT ![1] = value], Nil)
    ELSE Ret(old, Unsupported("unsupported type", <<sf.type.kind>>))

\* default: every other kind is an error.
SetOther(old, sf, value) == Ret(old, Unsupported("unsupported type", <<sf.type.kind>>))

\* setFieldValue(field, fieldType, value): [val, err], val the field's value
\* afterwards.  old is the value the field holds.
SetFieldValue(old, sf, value) ==
    LET kind == sf.type.kind
    IN  CASE kind = "string" -> Ret(value, Nil)
          [] kind \in IntKinds -> SetSigned(old, sf, value)
          [] kind \in UintKinds -> SetUnsigned(old, sf, value)
          [] kind = "float64" -> SetFloat(old, sf, value)
          [] kind = "bool" -> SetBool(old, sf, value)
          [] kind = "slice" -> SetSlice(old, sf, value)
          [] kind = "map" -> SetMap(old, sf, value)
          [] OTHER -> SetOther(old, sf, value)

\* The key with a tag that is written but empty taken as it stands.
EnvTagLiteral(sf) ==
    IF "env" \in DOMAIN sf.tag THEN sf.tag["env"] ELSE ToUpper(sf.name)

\* The key a field is looked up under: the env tag, or the field's name in
\* upper case when that tag is empty.
EnvTag(sf) ==
    LET envTag == TagGet(sf.tag, "env")
    IN  IF envTag = <<>> THEN ToUpper(sf.name) ELSE envTag

\* The working value with the default tag taken first.
WorkingValueDefaultFirst(value, sf) ==
    LET defaultTag == TagGet(sf.tag, "default")
    IN  IF defaultTag # <<>> THEN defaultTag ELSE value

\* The value a field is set from: the variable, or the default tag when the
\* variable is empty.
WorkingValue(value, sf) ==
    LET defaultTag == TagGet(sf.tag, "default")
    IN  IF value = <<>> /\ defaultTag # <<>> THEN defaultTag ELSE value

\* The end of the loop body: the error of setFieldValue returned with the
\* field's name, or the field assigned.
AfterSet(st, i, name, got) ==
    IF got.err # Nil
    THEN [st EXCEPT !.err = FieldError(name, got.err)]
    ELSE [st EXCEPT !.vals[i] = got.val]

\* The loop body from the working value on: an empty value skips the field.
SetOrSkip(st, i, value, got) ==
    IF value = <<>> THEN st ELSE AfterSet(st, i, st.fields[i].name, got)

\* The body of Parse's loop for field i.  st is [fields, vals, reads, err]:
\* the struct's fields, their values, the keys passed to os.Getenv so far and
\* the error Parse returns.
ParseField(c, env, st, i) ==
    LET sf == st.fields[i]
    IN  IF ~CanSet(sf) THEN st
        ELSE LET prefixedKey == PrependPrefix(c, EnvTag(sf))
                 value       == WorkingValue(Getenv(env, prefixedKey), sf)
                 st1         == [st EXCEPT !.reads = Append(st.reads, prefixedKey)]
             IN  SetOrSkip(st1, i, value, SetFieldValue(st.vals[i], sf, value))

\* Parse's loop from field i on; it returns at the first error.
RECURSIVE ParseFields(_, _, _, _)
ParseFields(c, env, st, i) ==
    IF i > Len(st.fields) \/ st.err # Nil THEN st
    ELSE ParseFields(c, env, ParseField(c, env, st, i), i + 1)

\* The loop that goes on with the next field after a field that fails, and
\* returns the last failure.
RECURSIVE ParseFieldsKeepGoing(_, _, _, _)
ParseFieldsKeepGoing(c, env, st, i) ==
    IF i > Len(st.fields) THEN st
    ELSE ParseFieldsKeepGoing(c, env, ParseField(c, env, st, i), i + 1)

\* The state of the loop before the first field.
Start(v) == [fields |-> v.fields, vals |-> v.vals, reads |-> <<>>, err |-> Nil]

\* return fmt.Errorf("expect pointer to struct")
Rejected(v) == [Start(v) EXCEPT !.err = ErrExpectPointer]

\* The argument of Parse as reflect sees it: [kind, elem, fields, vals], the
\* kind of the value, the kind of what it points to, and when a struct is
\* reached its fields and their values.
IsPointerToStruct(v) == v.kind = "ptr" /\ v.elem = "struct"

\* Parse that takes a struct passed by value as well.
ConfigParseAnyStruct(c, env, v) ==
    IF v.fields = <<>> THEN Rejected(v) ELSE ParseFields(c, env, Start(v), 1)

\* Parse that does not stop at the first field that fails.
ConfigParseKeepGoing(c, env, v) ==
    IF ~IsPointerToStruct(v) THEN Rejected(v) ELSE ParseFieldsKeepGoing(c, env, Start(v), 1)

\* Config.Parse(v): [vals, reads, err].
ConfigParse(c, env, v) ==
    IF ~IsPointerToStruct(v) THEN Rejected(v) ELSE ParseFields(c, env, Start(v), 1)

(***************************************************************************)
(* The structs, environments and configurations Parse is run on.           *)
(***************************************************************************)
Type(kind, name, elem, key, fields) ==
    [kind |-> kind, name |-> name, elem |-> elem, key |-> key, fields |-> fields]

Basic(kind) == Type(kind, kind, "", "", <<>>)

DurationType == Type("int64", "time.Duration", "", "", <<>>)
SliceOf(elem) == Type("slice", "", elem, "", <<>>)
MapOf(key, elem) == Type("map", "", elem, key, <<>>)
ArrayOf(elem) == Type("array", "", elem, "", <<>>)
StructOf(fields) == Type("struct", "", "", "", fields)

Field(name, tag, type) == [name |-> name, tag |-> tag, type |-> type]

NoTag == [k \in {} |-> <<>>]
EnvOnly(k) == [x \in {"env"} |-> k]
EnvDefault(k, d) == [x \in {"env", "default"} |-> IF x = "env" THEN k ELSE d]

PortKey == <<"P", "O", "R", "T">>
HostKey == <<"H", "O", "S", "T">>
PortName == <<"P", "o", "r", "t">>
HostName == <<"H", "o", "s", "t">>
AppPrefix == <<"A", "P", "P", "_">>

\* The struct nested in another one: its field is looked up under PORT.
InnerConfig ==
    StructOf(<< Field(<<"I", "n", "n", "e", "r", "F", "i", "e", "l", "d">>,
                      EnvOnly(PortKey), Basic("string")) >>)

\* First fields, all looked up under PORT.
FirstFields ==
    { Field(PortName, EnvDefault(PortKey, <<"8", "0", "8", "0">>), Basic("int")),
      Field(PortName, NoTag, Basic("int")),
      Field(PortName, EnvOnly(<<>>), Basic("int8")),
      Field(PortName, EnvOnly(PortKey), DurationType),
      Field(PortName, EnvOnly(PortKey), Basic("int64")),
      Field(PortName, EnvDefault(PortKey, <<>>), Basic("bool")),
      Field(<<"p", "o", "r", "t">>, EnvOnly(PortKey), Basic("string")),
      Field(<<"p", "o", "r", "t">>, EnvOnly(PortKey), ArrayOf("string")) }

\* Second fields, all looked up under HOST.
SecondFields ==
    { Field(HostName, NoTag, Basic("string")),
      Field(HostName, EnvOnly(HostKey), Basic("bool")),
      Field(HostName, EnvOnly(HostKey), SliceOf("string")),
      Field(HostName, EnvOnly(HostKey), MapOf("string", "string")),
      Field(HostName, EnvOnly(HostKey), Basic("uint8")),
      Field(HostName, EnvDefault(HostKey, <<"1", ".", "5">>), Basic("float64")),
      Field(HostName, EnvOnly(HostKey), SliceOf("int")),
      Field(HostName, EnvOnly(HostKey), MapOf("int", "string")),
      Field(HostName, EnvOnly(HostKey), MapOf("string", "int")),
      Field(HostName, EnvOnly(HostKey), ArrayOf("string")),
      Field(HostName, EnvOnly(HostKey), Basic("chan")),
      Field(HostName, EnvOnly(HostKey), Basic("func")),
      Field(HostName, EnvOnly(HostKey), InnerConfig) }

\* The last field of every struct, a string looked up under PORT.
LastField == Field(<<"E", "x", "t", "r", "a">>, EnvOnly(PortKey), Basic("string"))

\* A duration and a 64-bit integer, both looked up under PORT.
TimeoutAndCount ==
    << Field(<<"T", "i", "m", "e", "o", "u", "t">>, EnvOnly(PortKey), DurationType),
       Field(<<"C", "o", "u", "n", "t">>, EnvOnly(PortKey), Basic("int64")),
       LastField >>

StructTypes ==
    { <<f1, f2, LastField>> : f1 \in FirstFields, f2 \in SecondFields }
        \cup {TimeoutAndCount}

\* The zero value of a type, and a value that is not the zero value for the
\* types that have one in the model.
RECURSIVE ZeroValue(_)
ZeroValue(t) ==
    CASE t.kind = "string" -> <<>>
      [] t.kind \in IntKinds \cup UintKinds -> IntZero
      [] t.kind = "float64" -> FloatZero
      [] t.kind = "bool" -> FALSE
      [] t.kind = "map" -> EmptyMap
      [] t.kind = "struct" -> [i \in 1..Len(t.fields) |-> ZeroValue(t.fields[i].type)]
      [] OTHER -> <<>>

RECURSIVE SetValue(_)
SetValue(t) ==
    CASE t.kind = "string" -> <<"o", "l", "d">>
      [] t.kind \in IntKinds \cup UintKinds -> MkInt(FALSE, <<"7">>)
      [] t.kind = "float64" -> MkFloat(FALSE, <<"2", "5">>, -1)
      [] t.kind = "bool" -> TRUE
      [] t.kind = "map" -> MapPut(EmptyMap, <<"o", "l", "d">>, <<"v">>)
      [] t.kind = "struct" -> [i \in 1..Len(t.fields) |-> SetValue(t.fields[i].type)]
      [] OTHER -> << <<"o", "l", "d">> >>

ZeroValues(fields) == [i \in 1..Len(fields) |-> ZeroValue(fields[i].type)]
SetValues(fields) == [i \in 1..Len(fields) |-> SetValue(fields[i].type)]

\* The argument of Parse without its values: [kind, elem, fields].
Shape(kind, elem, fields) == [kind |-> kind, elem |-> elem, fields |-> fields]

\* &config for every struct type.
PointerShapes == { Shape("ptr", "struct", fs) : fs \in StructTypes }

SampleStruct ==
    << Field(PortName, EnvDefault(PortKey, <<"8", "0", "8", "0">>), Basic("int")),
       Field(HostName, NoTag, Basic("string")),
       LastField >>

\* A struct by value, a pointer to a string, a pointer to a pointer to a
\* struct, nil, and a nil pointer to a struct.
OtherShapes ==
    { Shape("struct", "", SampleStruct),
      Shape("ptr", "string", <<>>),
      Shape("ptr", "ptr", SampleStruct),
      Shape("invalid", "", <<>>),
      Shape("ptr", "invalid", <<>>) }

Shapes == PointerShapes \cup OtherShapes

\* The argument of the shape sh whose fields are zero, or hold a value already.
Argument(sh, held) ==
    [kind |-> sh.kind, elem |-> sh.elem, fields |-> sh.fields,
     vals |-> IF held THEN SetValues(sh.fields) ELSE ZeroValues(sh.fields)]

NoArgument == Argument(Shape("invalid", "", <<>>), FALSE)

PortValues ==
    { <<>>, <<"5">>, <<"5", "s">>, <<"3", "0", "0">>, <<"z", "z">> }

HostValues ==
    { <<>>, <<"5">>, <<"-", "1">>, <<"2", "5", "6">>, <<"1", ".", "5">>,
      <<"m", "a", "y", "b", "e">>, <<"Y", "E", "S">>, <<" ", "y">>,
      <<"a", ",", " ", "b", ",">>, <<"k", ":", "v", ",", "k", ":", " ", "w", ",", "x">> }

AppPortValues == { <<>>, <<"9", "0", "0", "0">> }

Environment(port, host, appPort) ==
    [k \in {PortKey, HostKey, AppPrefix \o PortKey} |->
        IF k = PortKey THEN port ELSE IF k = HostKey THEN host ELSE appPort]

Environments ==
    { Environment(p, h, a) : p \in PortValues, h \in HostValues, a \in AppPortValues }

NoEnvironment == Environment(<<>>, <<>>, <<>>)

Configs == [Mode : {"development"}, Prefix : {<<>>, AppPrefix}]

DefaultConfig == [Mode |-> "development", Prefix |-> <<>>]

(***************************************************************************)
(* Config (config.go): the mode, the overlay files and the options.        *)
(*                                                                         *)
(* A Config is [Mode, Prefix]; a *Config is an index into heap, 0 for nil. *)
(* A file is "absent", "good" or "bad" (present, but godotenv cannot load  *)
(* it).  An empty variable stands for one that is not set.                 *)
(***************************************************************************)
Production == "production"
Staging == "staging"
Development == "development"

EnvFile == ".env"
StagingFile == ".env.staging"
DevelopmentFile == ".env.development"
FileNames == {EnvFile, StagingFile, DevelopmentFile}

\* fileExists: os.Stat returns no error.
FileExists(fs, filename) == fs[filename] # "absent"

\* determineDefaultMode with the two-file case before the three-file case.
DetermineDefaultModeStagingFirst(appenv, fs) ==
    IF appenv # "" THEN appenv
    ELSE LET hasEnv     == FileExists(fs, EnvFile)
             hasStaging == FileExists(fs, StagingFile)
             hasDev     == FileExists(fs, DevelopmentFile)
         IN  IF hasEnv /\ hasStaging THEN Staging
             ELSE IF hasEnv /\ hasStaging /\ hasDev THEN Development
             ELSE IF hasEnv THEN Production
             ELSE Development

\* determineDefaultMode: appenv is os.Getenv("APP_ENV").
DetermineDefaultMode(appenv, fs) ==
    IF appenv # "" THEN appenv
    ELSE LET hasEnv     == FileExists(fs, EnvFile)
             hasStaging == FileExists(fs, StagingFile)
             hasDev     == FileExists(fs, DevelopmentFile)
         IN  IF hasEnv /\ hasStaging /\ hasDev THEN Development
             ELSE IF hasEnv /\ hasStaging THEN Staging
             ELSE IF hasEnv THEN Production
             ELSE Development

\* fmt.Errorf("mode environment tidak valid: %s", c.Mode)
ErrInvalidMode(mode) ==
    [kind |-> "mode environment tidak valid", key |-> <<>>, text |-> <<mode>>]

\* fmt.Errorf("file %s tidak ditemukan", envFile)
ErrFileNotFound(envFile) ==
    [kind |-> "file tidak ditemukan", key |-> <<>>, text |-> <<envFile>>]

\* The error godotenv.Load returns for a file it cannot read or parse.
ErrGodotenv(envFile) == [kind |-> "godotenv", key |-> <<>>, text |-> <<envFile>>]

\* What the files hold: PORT=80, PORT=8080 and PORT=3000.
FileValue(envFile) ==
    CASE envFile = EnvFile -> <<"8", "0">>
      [] envFile = StagingFile -> <<"8", "0", "8", "0">>
      [] envFile = DevelopmentFile -> <<"3", "0", "0", "0">>

\* godotenv.Load: the file's variables are set unless the environment has
\* them already; a file it cannot parse sets nothing.  Returns [env, err].
GodotenvLoad(env, fs, envFile) ==
    IF fs[envFile] = "bad" THEN [env |-> env, err |-> ErrGodotenv(envFile)]
    ELSE [env |-> [k \in DOMAIN env |->
                      IF k = PortKey /\ env[k] = <<>> THEN FileValue(envFile) ELSE env[k]],
          err |-> Nil]

\* The switch of Load: the file of the mode, "" for any other mode.
FileOfMode(mode) ==
    CASE mode = Production -> EnvFile
      [] mode = Staging -> StagingFile
      [] mode = Development -> DevelopmentFile
      [] OTHER -> ""

\* Config.Load that treats the production file as an overlay that may be missing.
ConfigLoadLenient(c, env, fs) ==
    IF FileOfMode(c.Mode) = "" THEN [env |-> env, err |-> ErrInvalidMode(c.Mode)]
    ELSE IF ~FileExists(fs, FileOfMode(c.Mode)) THEN [env |-> env, err |-> Nil]
    ELSE GodotenvLoad(env, fs, FileOfMode(c.Mode))

\* Config.Load: [env, err].
ConfigLoad(c, env, fs) ==
    IF FileOfMode(c.Mode) = "" THEN [env |-> env, err |-> ErrInvalidMode(c.Mode)]
    ELSE IF ~FileExists(fs, FileOfMode(c.Mode))
    THEN IF c.Mode # Production
         THEN [env |-> env, err |-> Nil]
         ELSE [env |-> env, err |-> ErrFileNotFound(FileOfMode(c.Mode))]
    ELSE GodotenvLoad(env, fs, FileOfMode(c.Mode))

\* A ConfigOption is [field, mode, prefix]: WithMode(mode) or WithPrefix(prefix).
WithMode(mode) == [field |-> "Mode", mode |-> mode, prefix |-> <<>>]
WithPrefix(prefix) == [field |-> "Prefix", mode |-> "", prefix |-> prefix]

\* option(config)
ApplyOption(c, option) ==
    IF option.field = "Mode" THEN [c EXCEPT !.Mode = option.mode]
    ELSE [c EXCEPT !.Prefix = option.prefix]

\* for _, option := range options { option(config) }
RECURSIVE ApplyOptions(_, _)
ApplyOptions(c, options) ==
    IF options = <<>> THEN c
    ELSE ApplyOptions(ApplyOption(c, Head(options)), Tail(options))

\* A heap with one more Config, and the pointer to it.
Alloc(h, c) == [heap |-> Append(h, c), ptr |-> Len(h) + 1]

\* What New makes of the loaded configuration: [heap, ptr, err, env].
NewReturns(h, c, loaded) ==
    IF loaded.err # Nil
    THEN [heap |-> h, ptr |-> 0, err |-> loaded.err, env |-> loaded.env]
    ELSE [heap |-> Append(h, c), ptr |-> Len(h) + 1, err |-> Nil, env |-> loaded.env]

\* New(options...)
New(h, appenv, env, fs, options) ==
    LET c == ApplyOptions([Mode |-> DetermineDefaultMode(appenv, fs), Prefix |-> <<>>],
                          options)
    IN  NewReturns(h, c, ConfigLoad(c, env, fs))

\* From that applies the options to the receiver itself and returns it.
ConfigFromInPlace(h, p, options) ==
    [heap |-> [h EXCEPT ![p] = ApplyOptions(h[p], options)], ptr |-> p]

\* c.From(options...): [heap, ptr].
ConfigFrom(h, p, options) ==
    Alloc(h, ApplyOptions([Mode |-> h[p].Mode, Prefix |-> h[p].Prefix], options))

(***************************************************************************)
(* Config: the accessors.  A variadic defaultValue is a sequence of no or  *)
(* one value; a method that returns (value, error) returns [val, err].     *)
(***************************************************************************)
\* c.Key(key): the result, err nil.
ConfigKey(c, env, key) ==
    [key |-> PrependPrefix(c, key), value |-> Getenv(env, PrependPrefix(c, key)),
     err |-> Nil]

\* The value, or the default when the value is empty and a default was given.
OrDefault(value, defaultValue, got) ==
    IF value = <<>> /\ Len(defaultValue) > 0 THEN defaultValue[1] ELSE got

\* The strict accessors on an empty value: the default, or the zero and an error.
OrNotFound(prefixedKey, value, defaultValue, zero, got) ==
    IF value = <<>>
    THEN IF Len(defaultValue) > 0 THEN Ret(defaultValue[1], Nil)
         ELSE Ret(zero, ErrNotFound(prefixedKey))
    ELSE got

ConfigGet(c, env, key, defaultValue) ==
    OrDefault(Getenv(env, PrependPrefix(c, key)), defaultValue,
              Getenv(env, PrependPrefix(c, key)))

\* GetInt that falls back on the default for a value it cannot parse.
ConfigGetIntLenient(c, env, key, defaultValue) ==
    IF Len(defaultValue) > 0 /\ Atoi(Getenv(env, PrependPrefix(c, key))).err # Nil
    THEN Ret(defaultValue[1], Nil)
    ELSE OrNotFound(PrependPrefix(c, key), Getenv(env, PrependPrefix(c, key)),
                    defaultValue, IntZero, Atoi(Getenv(env, PrependPrefix(c, key))))

ConfigGetInt(c, env, key, defaultValue) ==
    OrNotFound(PrependPrefix(c, key), Getenv(env, PrependPrefix(c, key)),
               defaultValue, IntZero, Atoi(Getenv(env, PrependPrefix(c, key))))

ConfigGetInt64(c, env, key, defaultValue) ==
    OrNotFound(PrependPrefix(c, key), Getenv(env, PrependPrefix(c, key)),
               defaultValue, IntZero, ParseInt(Getenv(env, PrependPrefix(c, key))))

ConfigGetFloat64(c, env, key, defaultValue) ==
    OrNotFound(PrependPrefix(c, key), Getenv(env, PrependPrefix(c, key)),
               defaultValue, FloatZero, ParseFloat(Getenv(env, PrependPrefix(c, key))))

ConfigGetDuration(c, env, key, defaultValue) ==
    OrNotFound(PrependPrefix(c, key), Getenv(env, PrependPrefix(c, key)),
               defaultValue, IntZero, ParseDuration(Getenv(env, PrependPrefix(c, key))))

\* strings.ToLower(value) is one of true, 1, yes, y.
IsTruthy(value) ==
    ToLower(value) \in { <<"t", "r", "u", "e">>, <<"1">>, <<"y", "e", "s">>, <<"y">> }

ConfigGetBool(c, env, key, defaultValue) ==
    IF Getenv(env, PrependPrefix(c, key)) = <<>>
    THEN IF Len(defaultValue) > 0 THEN defaultValue[1] ELSE FALSE
    ELSE IsTruthy(Getenv(env, PrependPrefix(c, key)))

\* strings.Split and strings.TrimSpace on every part.
TrimmedParts(parts) == [i \in 1..Len(parts) |-> TrimSpace(parts[i])]

ConfigGetSlice(c, env, key, delimiter, defaultValue) ==
    OrDefault(Getenv(env, PrependPrefix(c, key)), defaultValue,
              TrimmedParts(Split(Getenv(env, PrependPrefix(c, key)),
                                 IF delimiter = <<>> THEN <<",">> ELSE delimiter)))

ConfigGetMap(c, env, key, defaultValue) ==
    IF Getenv(env, PrependPrefix(c, key)) = <<>>
    THEN IF Len(defaultValue) > 0 THEN defaultValue[1] ELSE EmptyMap
    ELSE MapEntries(Split(Getenv(env, PrependPrefix(c, key)), <<",">>), EmptyMap)

ConfigGetMode(c) == c.Mode
ConfigIsProduction(c) == c.Mode = Production
ConfigIsStaging(c) == c.Mode = Staging
ConfigIsDevelopment(c) == c.Mode = Development

(***************************************************************************)
(* The package level: the singleton is [heap, defaultInstance, once,       *)
(* initErr, env], once telling whether once.Do has run.                    *)
(***************************************************************************)
Singleton(h, p, done, err, env) ==
    [heap |-> h, defaultInstance |-> p, once |-> done, initErr |-> err, env |-> env]

\* defaultInstance, initErr = New() inside once.Do
OnceDo(made) == Singleton(made.heap, made.ptr, TRUE, made.err, made.env)

\* getDefaultInstance: the singleton afterwards; the caller gets
\* (defaultInstance, initErr) of it.
GetDefaultInstance(S, appenv, fs) ==
    IF S.once THEN S ELSE OnceDo(New(S.heap, appenv, S.env, fs, <<>>))

\* The assignments of Initialize after New: [S, err].
Initialized(S, made) ==
    IF made.err # Nil
    THEN [S |-> Singleton(S.heap, S.defaultInstance, S.once, S.initErr, made.env),
          err |-> made.err]
    ELSE [S |-> Singleton(made.heap, made.ptr, S.once, Nil, made.env), err |-> Nil]

\* Initialize(options...)
Initialize(S, appenv, fs, options) ==
    Initialized(S, New(S.heap, appenv, S.env, fs, options))

\* The Config the package-level functions call their method on.
Instance(S) == S.heap[S.defaultInstance]

\* cfg is nil and err is nil: the method call dereferences a nil pointer.
Panics(S) == S.initErr = Nil /\ S.defaultInstance = 0

\* if err != nil: the default when one is given, else the zero value, with
\* the error for the functions that return one.
OrFallback(S, defaultValue, zero, strict, got) ==
    IF S.initErr # Nil
    THEN IF Len(defaultValue) > 0 THEN Ret(defaultValue[1], Nil)
         ELSE Ret(zero, IF strict THEN S.initErr ELSE Nil)
    ELSE got

\* Below, S is the singleton as getDefaultInstance leaves it.
PkgGet(S, key, defaultValue) ==
    OrFallback(S, defaultValue, <<>>, FALSE,
               Ret(ConfigGet(Instance(S), S.env, key, defaultValue), Nil))

\* GetInt that returns the error even when a default is given.
PkgGetIntErrFirst(S, key, defaultValue) ==
    IF S.initErr # Nil THEN Ret(IntZero, S.initErr)
    ELSE ConfigGetInt(Instance(S), S.env, key, defaultValue)

PkgGetInt(S, key, defaultValue) ==
    OrFallback(S, defaultValue, IntZero, TRUE,
               ConfigGetInt(Instance(S), S.env, key, defaultValue))

PkgGetInt64(S, key, defaultValue) ==
    OrFallback(S, defaultValue, IntZero, TRUE,
               ConfigGetInt64(Instance(S), S.env, key, defaultValue))

PkgGetFloat64(S, key, defaultValue) ==
    OrFallback(S, defaultValue, FloatZero, TRUE,
               ConfigGetFloat64(Instance(S), S.env, key, defaultValue))

PkgGetDuration(S, key, defaultValue) ==
    OrFallback(S, defaultValue, IntZero, TRUE,
               ConfigGetDuration(Instance(S), S.env, key, defaultValue))

PkgGetBool(S, key, defaultValue) ==
    OrFallback(S, defaultValue, FALSE, FALSE,
               Ret(ConfigGetBool(Instance(S), S.env, key, defaultValue), Nil))

PkgGetSlice(S, key, delimiter, defaultValue) ==
    OrFallback(S, defaultValue, <<>>, FALSE,
               Ret(ConfigGetSlice(Instance(S), S.env, key, delimiter, defaultValue), Nil))

PkgGetMap(S, key, defaultValue) ==
    OrFallback(S, defaultValue, EmptyMap, FALSE,
               Ret(ConfigGetMap(Instance(S), S.env, key, defaultValue), Nil))

PkgGetMode(S) == IF S.initErr # Nil THEN "" ELSE ConfigGetMode(Instance(S))
PkgIsProduction(S) == IF S.initErr # Nil THEN FALSE ELSE ConfigIsProduction(Instance(S))
PkgIsStaging(S) == IF S.initErr # Nil THEN FALSE ELSE ConfigIsStaging(Instance(S))
PkgIsDevelopment(S) == IF S.initErr # Nil THEN FALSE ELSE ConfigIsDevelopment(Instance(S))

\* Key that reads the variable although the singleton failed.
PkgKeyReading(S, key) ==
    IF S.initErr # Nil
    THEN [key |-> key, value |-> Getenv(S.env, key), err |-> S.initErr]
    ELSE ConfigKey(Instance(S), S.env, key)

\* Key(key): &result{err: err} when the singleton failed.
PkgKey(S, key) ==
    IF S.initErr # Nil THEN [key |-> <<>>, value |-> <<>>, err |-> S.initErr]
    ELSE ConfigKey(Instance(S), S.env, key)

\* Int(key, defaultValue...)
PkgInt(S, key, defaultValue) ==
    IF PkgGetInt(S, key, defaultValue).err # Nil /\ Len(defaultValue) > 0
    THEN defaultValue[1]
    ELSE PkgGetInt(S, key, defaultValue).val

\* Parse(v): the init error, or cfg.Parse(v) as [vals, reads, err].
PkgParse(S, v) ==
    IF S.initErr # Nil THEN [vals |-> v.vals, reads |-> <<>>, err |-> S.initErr]
    ELSE ConfigParse(Instance(S), S.env, v)

\* With(options...): [S, ptr], ptr the Config returned.
PkgWith(S, appenv, fs, options) ==
    IF S.initErr # Nil
    THEN LET made == New(S.heap, appenv, S.env, fs, options)
         IN  [S |-> Singleton(made.heap, S.defaultInstance, S.once, S.initErr, made.env),
              ptr |-> made.ptr]
    ELSE [S |-> Singleton(ConfigFrom(S.heap, S.defaultInstance, options).heap,
                          S.defaultInstance, S.once, S.initErr, S.env),
          ptr |-> ConfigFrom(S.heap, S.defaultInstance, options).ptr]

(***************************************************************************)
(* The state: r0 is the result as constructed, r the result now, calls the *)
(* chain calls made on it so far, out the last terminal call and what it   *)
(* returned.                                                               *)
(***************************************************************************)
Out(op, delim, dflt, val, err) ==
    [op |-> op, delim |-> delim, dflt |-> dflt, val |-> val, err |-> err]

NoOut == Out("none", <<>>, <<>>, <<>>, Nil)

Results(values) == [key : {TestKey}, value : values, err : InitialErrs]

\* No Parse is going on.
ParseIdle ==
    /\ config = DefaultConfig
    /\ environ = NoEnvironment
    /\ target = NoArgument
    /\ before = <<>>
    /\ lookups = <<>>
    /\ perr = Nil
    /\ nparse = 0

\* The answer of the last call on a Config or on the package: the call, its
\* arguments, and what it returned (val, err, and ptr for a *Config).
Answer(op, key, dv, options, val, err, ptr) ==
    [op |-> op, key |-> key, dv |-> dv, options |-> options,
     val |-> val, err |-> err, ptr |-> ptr, panic |-> FALSE]

NoAnswer == Answer("none", <<>>, <<>>, <<>>, <<>>, Nil, 0)

\* hist counts the calls, and remembers the Config the last successful
\* Initialize built and whether once.Do had run when it was called.
NoHist == [n |-> 0, lastInit |-> 0, onceThen |-> FALSE]

NoFiles == [f \in FileNames |-> "absent"]

\* The package is untouched and nothing is called on it.
PackageIdle ==
    /\ appEnv = ""
    /\ files = NoFiles
    /\ heap = <<>>
    /\ defaultInstance = 0
    /\ once = FALSE
    /\ initErr = Nil
    /\ ret = NoAnswer
    /\ hist = NoHist
    /\ pc = <<>>
    /\ loc = <<>>

Init ==
    /\ r0 \in Results(ChainValues)
    /\ r = r0
    /\ calls = <<>>
    /\ out = NoOut
    /\ ParseIdle
    /\ PackageIdle

InitValues ==
    /\ r0 \in Results(Values)
    /\ r = r0
    /\ calls = <<>>
    /\ out = NoOut
    /\ ParseIdle
    /\ PackageIdle

\* A chain call mutates the receiver and returns it.
CallRequired ==
    /\ Len(calls) < MaxCalls
    /\ r' = ResultRequired(r)
    /\ calls' = Append(calls, [op |-> "Required", arg |-> <<>>])
    /\ out' = NoOut
    /\ UNCHANGED <<r0, parseVars, pkgVars>>

CallDefault(d) ==
    /\ Len(calls) < MaxCalls
    /\ r' = ResultDefault(r, d)
    /\ calls' = Append(calls, [op |-> "Default", arg |-> d])
    /\ out' = NoOut
    /\ UNCHANGED <<r0, parseVars, pkgVars>>

\* A terminal reads the receiver and returns.
Returns(o) ==
    /\ out' = o
    /\ UNCHANGED <<r0, r, calls, parseVars, pkgVars>>

CallString == Returns(Out("String", <<>>, <<>>, ResultString(r), Nil))

\* Int that uses the value up: the result is empty afterwards.
CallIntConsuming ==
    LET got == ResultInt(r)
    IN  /\ out' = Out("Int", <<>>, <<>>, got.val, got.err)
        /\ r' = [r EXCEPT !.value = <<>>]
        /\ UNCHANGED <<r0, calls, parseVars, pkgVars>>

CallInt ==
    LET got == ResultInt(r) IN Returns(Out("Int", <<>>, <<>>, got.val, got.err))

CallIntDefault ==
    Returns(Out("IntDefault", <<>>, IntFallback, ResultIntDefault(r, IntFallback), Nil))

CallFloat64 ==
    LET got == ResultFloat64(r) IN Returns(Out("Float64", <<>>, <<>>, got.val, got.err))

CallFloat64Default ==
    Returns(Out("Float64Default", <<>>, FloatFallback,
                ResultFloat64Default(r, FloatFallback), Nil))

CallBool == Returns(Out("Bool", <<>>, <<>>, ResultBool(r), Nil))

CallBoolDefault(d) == Returns(Out("BoolDefault", <<>>, d, ResultBoolDefault(r, d), Nil))

CallDuration ==
    LET got == ResultDuration(r) IN Returns(Out("Duration", <<>>, <<>>, got.val, got.err))

CallDurationDefault ==
    Returns(Out("DurationDefault", <<>>, DurationFallback,
                ResultDurationDefault(r, DurationFallback), Nil))

CallSlice(delim) == Returns(Out("Slice", delim, <<>>, ResultSlice(r, delim), Nil))

CallSliceDefault(delim) ==
    Returns(Out("SliceDefault", delim, SliceFallback,
                ResultSliceDefault(r, delim, SliceFallback), Nil))

CallMap == Returns(Out("Map", <<>>, <<>>, ResultMap(r), Nil))

CallMapDefault ==
    Returns(Out("MapDefault", <<>>, MapFallback, ResultMapDefault(r, MapFallback), Nil))

NextValues ==
    \/ CallString
    \/ CallInt
    \/ CallIntDefault
    \/ CallFloat64
    \/ CallFloat64Default
    \/ CallBool
    \/ \E d \in BOOLEAN : CallBoolDefault(d)
    \/ CallDuration
    \/ CallDurationDefault
    \/ \E delim \in Delimiters : CallSlice(delim)
    \/ \E delim \in Delimiters : CallSliceDefault(delim)
    \/ CallMap
    \/ CallMapDefault

Next ==
    \/ CallRequired
    \/ \E d \in DefaultArgs : CallDefault(d)
    \/ NextValues

\* The chain: a result, the chain calls on it, the terminals.
Spec == Init /\ [][Next]_vars

\* The terminals applied to every raw value of Values.
SpecValues == InitValues /\ [][NextValues]_vars

(***************************************************************************)
(* Parse: config is the Config it is called on, environ the process        *)
(* environment, target the argument; of the last call, before holds the    *)
(* fields' values when it started, lookups the keys it passed to os.Getenv *)
(* and perr the error it returned; nparse counts the calls.                *)
(***************************************************************************)
InitParse ==
    /\ config \in Configs
    /\ environ \in Environments
    /\ \E sh \in Shapes, held \in BOOLEAN : target = Argument(sh, held)
    /\ before = target.vals
    /\ lookups = <<>>
    /\ perr = Nil
    /\ nparse = 0
    /\ r0 = [key |-> TestKey, value |-> <<>>, err |-> Nil]
    /\ r = r0
    /\ calls = <<>>
    /\ out = NoOut
    /\ PackageIdle

\* What a call leaves: the fields assigned in place, the keys read, the error.
ParseReturns(got) ==
    /\ target' = [target EXCEPT !.vals = got.vals]
    /\ lookups' = got.reads
    /\ perr' = got.err

\* c.Parse(v): v's fields are assigned in place.
CallParse ==
    /\ nparse < MaxParses
    /\ ParseReturns(ConfigParse(config, environ, target))
    /\ before' = target.vals
    /\ nparse' = nparse + 1
    /\ UNCHANGED <<config, environ, chainVars, pkgVars>>

\* A struct of one field, for every second field, and HOST any raw value.
InitParseValues ==
    /\ config = DefaultConfig
    /\ environ \in { Environment(<<>>, h, <<>>) : h \in Values }
    /\ \E f \in SecondFields : target = Argument(Shape("ptr", "struct", <<f>>), TRUE)
    /\ before = target.vals
    /\ lookups = <<>>
    /\ perr = Nil
    /\ nparse = 0
    /\ r0 = [key |-> TestKey, value |-> <<>>, err |-> Nil]
    /\ r = r0
    /\ calls = <<>>
    /\ out = NoOut
    /\ PackageIdle

NextParse == CallParse

\* Parse on every struct, environment and prefix of the model.
SpecParse == InitParse /\ [][NextParse]_vars

\* Parse of a one-field struct on every raw value of Values.
SpecParseValues == InitParseValues /\ [][NextParse]_vars

(***************************************************************************)
(* New, Load and determineDefaultMode, on every combination of files and   *)
(* every APP_ENV of the model.  heap starts with Config literals of every  *)
(* mode (&Config{Mode: ...}), the Configs Load is called on.               *)
(***************************************************************************)
\* APP_ENV: not set, two supported modes, and two values that name no mode.
AppEnvs == {"", Production, Staging, "testing", "Production"}

FileSets == [FileNames -> {"absent", "good", "bad"}]

\* WithMode("testing") names no supported mode.
OptionLists ==
    { <<>>,
      <<WithMode(Staging)>>,
      <<WithMode(Production)>>,
      <<WithMode("testing")>>,
      <<WithPrefix(AppPrefix)>>,
      <<WithMode(Staging), WithPrefix(AppPrefix), WithMode(Development)>> }

Literals ==
    << [Mode |-> Production, Prefix |-> <<>>],
       [Mode |-> Staging, Prefix |-> <<>>],
       [Mode |-> Development, Prefix |-> AppPrefix],
       [Mode |-> "testing", Prefix |-> <<>>],
       [Mode |-> "", Prefix |-> <<>>] >>

\* Nothing of the chain and of Parse is going on.
OnlyPackage ==
    /\ r0 = [key |-> TestKey, value |-> <<>>, err |-> Nil]
    /\ r = r0
    /\ calls = <<>>
    /\ out = NoOut
    /\ config = DefaultConfig
    /\ target = NoArgument
    /\ before = <<>>
    /\ lookups = <<>>
    /\ perr = Nil
    /\ nparse = 0

InitNew ==
    /\ appEnv \in AppEnvs
    /\ files \in FileSets
    /\ environ \in { Environment(p, <<>>, <<>>) : p \in {<<>>, <<"5">>} }
    /\ heap = Literals
    /\ defaultInstance = 0
    /\ once = FALSE
    /\ initErr = Nil
    /\ ret = NoAnswer
    /\ hist = NoHist
    /\ pc = <<>>
    /\ loc = <<>>
    /\ OnlyPackage

\* One more call is counted.
Counted == hist' = [hist EXCEPT !.n = hist.n + 1]

\* What a call on a Config leaves alone.
UnchangedByConfig ==
    UNCHANGED <<chainVars, config, target, before, lookups, perr, nparse,
                appEnv, files, defaultInstance, once, initErr, pc, loc>>

CallDetermineDefaultMode ==
    /\ hist.n < MaxOps
    /\ ret' = Answer("determineDefaultMode", <<>>, <<>>, <<>>,
                     DetermineDefaultMode(appEnv, files), Nil, 0)
    /\ Counted
    /\ UNCHANGED <<heap, environ>>
    /\ UnchangedByConfig

\* New: the Config is allocated, the file of its mode loaded.
NewDone(options, made) ==
    /\ heap' = made.heap
    /\ environ' = made.env
    /\ ret' = Answer("New", <<>>, <<>>, options, <<>>, made.err, made.ptr)

CallNew(options) ==
    /\ hist.n < MaxOps
    /\ NewDone(options, New(heap, appEnv, environ, files, options))
    /\ Counted
    /\ UnchangedByConfig

LoadDone(p, loaded) ==
    /\ environ' = loaded.env
    /\ ret' = Answer("Load", <<>>, <<>>, <<>>, <<>>, loaded.err, p)

\* c.Load() on the Config p points to.
CallLoad(p) ==
    /\ hist.n < MaxOps
    /\ LoadDone(p, ConfigLoad(heap[p], environ, files))
    /\ Counted
    /\ UNCHANGED heap
    /\ UnchangedByConfig

NextNew ==
    \/ CallDetermineDefaultMode
    \/ \E options \in OptionLists : CallNew(options)
    \/ \E p \in 1..Len(heap) : CallLoad(p)

\* New and Load on every combination of files.
SpecNew == InitNew /\ [][NextNew]_vars

(***************************************************************************)
(* The package level: Initialize, the lazily made default instance and the *)
(* package-level functions, called in any order.                           *)
(***************************************************************************)
\* The singleton now.
Now == Singleton(heap, defaultInstance, once, initErr, environ)

\* The singleton and the environment after a call.
Becomes(S) ==
    /\ heap' = S.heap
    /\ defaultInstance' = S.defaultInstance
    /\ once' = S.once
    /\ initErr' = S.initErr
    /\ environ' = S.env

\* A call that dereferenced a nil *Config.
Panicked(op) == [NoAnswer EXCEPT !.op = op, !.panic = TRUE]

\* What a package-level call leaves alone.
UnchangedByPackage ==
    UNCHANGED <<config, target, before, lookups, perr, nparse, appEnv, files, pc, loc>>

\* A package-level function: getDefaultInstance has left S, and a is the answer.
Called(S, op, a) ==
    /\ hist.n < MaxOps
    /\ Becomes(S)
    /\ ret' = IF Panics(S) THEN Panicked(op) ELSE a
    /\ Counted
    /\ UNCHANGED chainVars
    /\ UnchangedByPackage

\* A function that takes a key and defaults and returns a value, or a value
\* and an error: got is [val, err].
Got(S, op, key, dv, got) == Called(S, op, Answer(op, key, dv, <<>>, got.val, got.err, 0))

\* A function that returns one value.
Value(S, op, key, dv, val) == Called(S, op, Answer(op, key, dv, <<>>, val, Nil, 0))

PkgFileSets ==
    { NoFiles,
      [NoFiles EXCEPT ![EnvFile] = "good"],
      [NoFiles EXCEPT ![EnvFile] = "good", ![StagingFile] = "good"],
      [NoFiles EXCEPT ![EnvFile] = "bad"] }

\* PORT: not set, 5, not a number, and 2^63; APP_PORT is 9000.
PkgPortValues ==
    { <<>>, <<"5">>, <<"z", "z">>,
      <<"9", "2", "2", "3", "3", "7", "2", "0", "3", "6",
        "8", "5", "4", "7", "7", "5", "8", "0", "8">> }

PkgEnvironments ==
    { Environment(p, <<>>, <<"9", "0", "0", "0">>) : p \in PkgPortValues }

\* The struct the package-level Parse is called on.
PkgTarget == Argument(Shape("ptr", "struct", SampleStruct), FALSE)

InitPackage ==
    /\ appEnv \in {"", "testing"}
    /\ files \in PkgFileSets
    /\ environ \in PkgEnvironments
    /\ heap = <<[Mode |-> Development, Prefix |-> AppPrefix]>>
    /\ defaultInstance = 0
    /\ once = FALSE
    /\ initErr = Nil
    /\ ret = NoAnswer
    /\ hist = NoHist
    /\ pc = <<>>
    /\ loc = <<>>
    /\ r0 = [key |-> TestKey, value |-> <<>>, err |-> Nil]
    /\ r = r0
    /\ calls = <<>>
    /\ out = NoOut
    /\ config = DefaultConfig
    /\ target = PkgTarget
    /\ before = target.vals
    /\ lookups = <<>>
    /\ perr = Nil
    /\ nparse = 0

\* Initialize: hist remembers the Config of a successful call.
InitializeDone(options, done) ==
    /\ Becomes(done.S)
    /\ ret' = Answer("Initialize", <<>>, <<>>, options, <<>>, done.err,
                     IF done.err = Nil THEN done.S.defaultInstance ELSE 0)
    /\ hist' = IF done.err # Nil THEN [hist EXCEPT !.n = hist.n + 1]
               ELSE [n |-> hist.n + 1, lastInit |-> done.S.defaultInstance,
                     onceThen |-> once]

CallInitialize(options) ==
    /\ hist.n < MaxOps
    /\ InitializeDone(options, Initialize(Now, appEnv, files, options))
    /\ UNCHANGED chainVars
    /\ UnchangedByPackage

WithDone(S, options, with) ==
    /\ hist.n < MaxOps
    /\ Becomes(IF Panics(S) THEN S ELSE with.S)
    /\ ret' = IF Panics(S) THEN Panicked("With")
              ELSE Answer("With", <<>>, <<>>, options, S.defaultInstance, Nil, with.ptr)
    /\ Counted
    /\ UNCHANGED chainVars
    /\ UnchangedByPackage

\* With(options...): val is the default instance it starts from, ptr the
\* Config it returns.
CallWithOn(S, options) == WithDone(S, options, PkgWith(S, appEnv, files, options))

CallWith(options) == CallWithOn(GetDefaultInstance(Now, appEnv, files), options)

FromDone(p, options, from) ==
    /\ hist.n < MaxOps
    /\ heap' = from.heap
    /\ ret' = Answer("From", <<>>, <<>>, options, p, Nil, from.ptr)
    /\ Counted
    /\ UNCHANGED <<environ, chainVars>>
    /\ UnchangedByConfig

\* c.From(options...): val is the receiver, ptr the Config it returns.
CallFrom(p, options) == FromDone(p, options, ConfigFrom(heap, p, options))

Keys == {PortKey}

StringFallback == <<"d", "e", "f">>

CallGet(key, dv) ==
    LET S == GetDefaultInstance(Now, appEnv, files)
    IN  Got(S, "Get", key, dv, PkgGet(S, key, dv))

CallGetInt(key, dv) ==
    LET S == GetDefaultInstance(Now, appEnv, files)
    IN  Got(S, "GetInt", key, dv, PkgGetInt(S, key, dv))

CallGetInt64(key, dv) ==
    LET S == GetDefaultInstance(Now, appEnv, files)
    IN  Got(S, "GetInt64", key, dv, PkgGetInt64(S, key, dv))

CallGetFloat64(key, dv) ==
    LET S == GetDefaultInstance(Now, appEnv, files)
    IN  Got(S, "GetFloat64", key, dv, PkgGetFloat64(S, key, dv))

CallGetDuration(key, dv) ==
    LET S == GetDefaultInstance(Now, appEnv, files)
    IN  Got(S, "GetDuration", key, dv, PkgGetDuration(S, key, dv))

CallGetBool(key, dv) ==
    LET S == GetDefaultInstance(Now, appEnv, files)
    IN  Got(S, "GetBool", key, dv, PkgGetBool(S, key, dv))

CallGetSlice(key, dv) ==
    LET S == GetDefaultInstance(Now, appEnv, files)
    IN  Got(S, "GetSlice", key, dv, PkgGetSlice(S, key, <<",">>, dv))

CallGetMap(key, dv) ==
    LET S == GetDefaultInstance(Now, appEnv, files)
    IN  Got(S, "GetMap", key, dv, PkgGetMap(S, key, dv))

CallGetMode ==
    LET S == GetDefaultInstance(Now, appEnv, files)
    IN  Value(S, "GetMode", <<>>, <<>>, PkgGetMode(S))

CallIsProduction ==
    LET S == GetDefaultInstance(Now, appEnv, files)
    IN  Value(S, "IsProduction", <<>>, <<>>, PkgIsProduction(S))

CallIsStaging ==
    LET S == GetDefaultInstance(Now, appEnv, files)
    IN  Value(S, "IsStaging", <<>>, <<>>, PkgIsStaging(S))

CallIsDevelopment ==
    LET S == GetDefaultInstance(Now, appEnv, files)
    IN  Value(S, "IsDevelopment", <<>>, <<>>, PkgIsDevelopment(S))

\* Int(key, defaultValue...)
CallPkgInt(key, dv) ==
    LET S == GetDefaultInstance(Now, appEnv, files)
    IN  Value(S, "Int", key, dv, PkgInt(S, key, dv))

\* A result is made: the chain starts on it.
Keyed(res) ==
    /\ r0' = res
    /\ r' = res
    /\ calls' = <<>>
    /\ out' = NoOut

\* Key(key)
CallPkgKey(key) ==
    LET S == GetDefaultInstance(Now, appEnv, files)
    IN  /\ hist.n < MaxOps
        /\ Becomes(S)
        /\ ret' = IF Panics(S) THEN Panicked("Key")
                  ELSE Answer("Key", key, <<>>, <<>>, <<>>, Nil, 0)
        /\ Keyed(IF Panics(S) THEN r0 ELSE PkgKey(S, key))
        /\ Counted
        /\ UnchangedByPackage

\* Parse(v)
CallPkgParse ==
    LET S == GetDefaultInstance(Now, appEnv, files)
    IN  /\ hist.n < MaxOps
        /\ nparse < MaxParses
        /\ Becomes(S)
        /\ ParseReturns(IF Panics(S) THEN [vals |-> target.vals, reads |-> <<>>, err |-> Nil]
                        ELSE PkgParse(S, target))
        /\ ret' = IF Panics(S) THEN Panicked("Parse")
                  ELSE Answer("Parse", <<>>, <<>>, <<>>, <<>>, PkgParse(S, target).err, 0)
        /\ before' = target.vals
        /\ nparse' = nparse + 1
        /\ Counted
        /\ UNCHANGED <<chainVars, config, appEnv, files, pc, loc>>

\* c.Key(key) on the Config p points to.
CallConfigKey(p, key) ==
    /\ hist.n < MaxOps
    /\ ret' = Answer("ConfigKey", key, <<>>, <<>>, <<>>, Nil, p)
    /\ Keyed(ConfigKey(heap[p], environ, key))
    /\ Counted
    /\ UNCHANGED <<heap, environ>>
    /\ UNCHANGED <<config, target, before, lookups, perr, nparse,
                   appEnv, files, defaultInstance, once, initErr, pc, loc>>

ConfigGot(op, p, key, dv, got) ==
    /\ hist.n < MaxOps
    /\ ret' = Answer(op, key, dv, <<>>, got.val, got.err, p)
    /\ Counted
    /\ UNCHANGED <<heap, environ>>
    /\ UnchangedByConfig

\* c.GetInt(key, defaultValue...) on the Config p points to.
CallConfigGetInt(p, key, dv) ==
    ConfigGot("ConfigGetInt", p, key, dv, ConfigGetInt(heap[p], environ, key, dv))

\* The chain calls and String() on a result Key returned.
OnKeyed(call) == ret.op \in {"Key", "ConfigKey"} /\ ~ret.panic /\ call

NextPackage ==
    \/ \E options \in {<<WithPrefix(AppPrefix)>>, <<WithMode(Staging)>>,
                       <<WithMode("testing")>>} : CallInitialize(options)
    \/ CallWith(<<WithPrefix(AppPrefix)>>)
    \/ \E key \in Keys, dv \in {<<>>, <<StringFallback>>} : CallGet(key, dv)
    \/ \E key \in Keys, dv \in {<<>>, <<IntFallback>>} : CallGetInt(key, dv)
    \/ \E key \in Keys, dv \in {<<>>, <<IntFallback>>} : CallGetInt64(key, dv)
    \/ \E key \in Keys, dv \in {<<>>, <<FloatFallback>>} : CallGetFloat64(key, dv)
    \/ \E key \in Keys, dv \in {<<>>, <<DurationFallback>>} : CallGetDuration(key, dv)
    \/ \E key \in Keys, dv \in {<<>>, <<TRUE>>} : CallGetBool(key, dv)
    \/ \E key \in Keys, dv \in {<<>>, <<SliceFallback>>} : CallGetSlice(key, dv)
    \/ \E key \in Keys, dv \in {<<>>, <<MapFallback>>} : CallGetMap(key, dv)
    \/ CallGetMode
    \/ CallIsProduction
    \/ CallIsStaging
    \/ CallIsDevelopment
    \/ \E key \in Keys, dv \in {<<>>, <<IntFallback>>} : CallPkgInt(key, dv)
    \/ \E key \in Keys : CallPkgKey(key)
    \/ CallPkgParse
    \/ \E p \in 1..Len(heap), key \in Keys : CallConfigKey(p, key)
    \/ \E p \in 1..Len(heap), key \in Keys, dv \in {<<>>, <<IntFallback>>} :
            CallConfigGetInt(p, key, dv)
    \/ OnKeyed(CallRequired)
    \/ \E d \in {<<"x">>} : OnKeyed(CallDefault(d))
    \/ OnKeyed(CallString)

\* The package-level functions after any calls of Initialize.
SpecPackage == InitPackage /\ [][NextPackage]_vars

(***************************************************************************)
(* From and With on Configs made by New, Initialize, From and With.        *)
(***************************************************************************)
InitFrom ==
    /\ appEnv \in {"", "testing"}
    /\ files \in {NoFiles, [NoFiles EXCEPT ![EnvFile] = "good"]}
    /\ environ = NoEnvironment
    /\ heap = <<[Mode |-> Development, Prefix |-> AppPrefix]>>
    /\ defaultInstance = 0
    /\ once = FALSE
    /\ initErr = Nil
    /\ ret = NoAnswer
    /\ hist = NoHist
    /\ pc = <<>>
    /\ loc = <<>>
    /\ OnlyPackage

NextFrom ==
    \/ \E options \in {<<WithPrefix(AppPrefix)>>, <<WithMode(Staging)>>} :
            CallInitialize(options)
    \/ \E options \in OptionLists : CallWith(options)
    \/ \E p \in 1..Len(heap), options \in OptionLists : CallFrom(p, options)

SpecFrom == InitFrom /\ [][NextFrom]_vars

(***************************************************************************)
(* Initialize and With called from goroutines.  Processes 1..MaxProcs call *)
(* Initialize(WithMode(Staging)), the next MaxProcs call                   *)
(* With(WithPrefix("TEST_")).  Nothing but once.Do synchronises them: a    *)
(* step is one call of New or From or one read or write of defaultInstance *)
(* or initErr, and the steps interleave in any order.  pc is the position  *)
(* of each process, loc its local variables: what New returned (ptr, err), *)
(* what getDefaultInstance returned (cfg, cerr) and what the call returned *)
(* (out for With, err for Initialize).                                     *)
(***************************************************************************)
Initializers == 1..MaxProcs
Withers == (MaxProcs + 1)..(2 * MaxProcs)

TestPrefix == <<"T", "E", "S", "T", "_">>

NoLocals == [ptr |-> 0, err |-> Nil, cfg |-> 0, cerr |-> Nil, out |-> 0, panic |-> FALSE]

\* The production file is there, the singleton untouched.
InitRace ==
    /\ appEnv = ""
    /\ files = [NoFiles EXCEPT ![EnvFile] = "good"]
    /\ environ = NoEnvironment
    /\ heap = <<>>
    /\ defaultInstance = 0
    /\ once = FALSE
    /\ initErr = Nil
    /\ ret = NoAnswer
    /\ hist = NoHist
    /\ pc = [i \in 1..(2 * MaxProcs) |-> IF i \in Initializers THEN "new" ELSE "once"]
    /\ loc = [i \in 1..(2 * MaxProcs) |-> NoLocals]
    /\ OnlyPackage

UnchangedByStep ==
    UNCHANGED <<chainVars, config, target, before, lookups, perr, nparse,
                appEnv, files, ret, hist>>

Goto(i, label) == pc' = [pc EXCEPT ![i] = label]

\* config, err := New(options...)
MadeBy(i, made, then) ==
    /\ heap' = made.heap
    /\ environ' = made.env
    /\ loc' = [loc EXCEPT ![i].ptr = made.ptr, ![i].err = made.err]
    /\ Goto(i, IF made.err # Nil THEN "done" ELSE then)

InitializeNew(i) ==
    /\ pc[i] = "new"
    /\ MadeBy(i, New(heap, appEnv, environ, files, <<WithMode(Staging)>>), "setInstance")
    /\ UNCHANGED <<defaultInstance, once, initErr>>
    /\ UnchangedByStep

\* defaultInstance = config
InitializeSetInstance(i) ==
    /\ pc[i] = "setInstance"
    /\ defaultInstance' = loc[i].ptr
    /\ Goto(i, "setErr")
    /\ UNCHANGED <<heap, environ, once, initErr, loc>>
    /\ UnchangedByStep

\* initErr = nil; return nil
InitializeSetErr(i) ==
    /\ pc[i] = "setErr"
    /\ initErr' = Nil
    /\ Goto(i, "done")
    /\ UNCHANGED <<heap, environ, once, defaultInstance, loc>>
    /\ UnchangedByStep

\* A process is inside once.Do.
InsideOnce == \E j \in Withers : pc[j] \in {"onceSetInstance", "onceSetErr"}

\* once.Do: the first caller runs New(), the others wait until it has returned.
WithOnce(j) ==
    /\ pc[j] = "once"
    /\ ~InsideOnce
    /\ IF once
       THEN Goto(j, "readInstance") /\ UNCHANGED <<heap, environ, loc>>
       ELSE /\ heap' = New(heap, appEnv, environ, files, <<>>).heap
            /\ environ' = New(heap, appEnv, environ, files, <<>>).env
            /\ loc' = [loc EXCEPT ![j].ptr = New(heap, appEnv, environ, files, <<>>).ptr,
                                  ![j].err = New(heap, appEnv, environ, files, <<>>).err]
            /\ Goto(j, "onceSetInstance")
    /\ UNCHANGED <<defaultInstance, once, initErr>>
    /\ UnchangedByStep

\* defaultInstance, initErr = New(): the first assignment
WithOnceSetInstance(j) ==
    /\ pc[j] = "onceSetInstance"
    /\ defaultInstance' = loc[j].ptr
    /\ Goto(j, "onceSetErr")
    /\ UNCHANGED <<heap, environ, once, initErr, loc>>
    /\ UnchangedByStep

\* the second assignment, and once.Do returns
WithOnceSetErr(j) ==
    /\ pc[j] = "onceSetErr"
    /\ initErr' = loc[j].err
    /\ once' = TRUE
    /\ Goto(j, "readInstance")
    /\ UNCHANGED <<heap, environ, defaultInstance, loc>>
    /\ UnchangedByStep

\* return defaultInstance, initErr: the first read
WithReadInstance(j) ==
    /\ pc[j] = "readInstance"
    /\ loc' = [loc EXCEPT ![j].cfg = defaultInstance]
    /\ Goto(j, "readErr")
    /\ UNCHANGED <<heap, environ, defaultInstance, once, initErr>>
    /\ UnchangedByStep

\* the second read
WithReadErr(j) ==
    /\ pc[j] = "readErr"
    /\ loc' = [loc EXCEPT ![j].cerr = initErr]
    /\ Goto(j, "from")
    /\ UNCHANGED <<heap, environ, defaultInstance, once, initErr>>
    /\ UnchangedByStep

\* The rest of With: New(options...) after an error, cfg.From(options...)
\* otherwise, which dereferences cfg.
WithFrom(j) ==
    /\ pc[j] = "from"
    /\ IF loc[j].cerr # Nil
       THEN /\ heap' = New(heap, appEnv, environ, files, <<WithPrefix(TestPrefix)>>).heap
            /\ environ' = New(heap, appEnv, environ, files, <<WithPrefix(TestPrefix)>>).env
            /\ loc' = [loc EXCEPT ![j].out =
                          New(heap, appEnv, environ, files, <<WithPrefix(TestPrefix)>>).ptr]
       ELSE IF loc[j].cfg = 0
       THEN /\ loc' = [loc EXCEPT ![j].panic = TRUE]
            /\ UNCHANGED <<heap, environ>>
       ELSE /\ heap' = ConfigFrom(heap, loc[j].cfg, <<WithPrefix(TestPrefix)>>).heap
            /\ loc' = [loc EXCEPT ![j].out =
                          ConfigFrom(heap, loc[j].cfg, <<WithPrefix(TestPrefix)>>).ptr]
            /\ UNCHANGED environ
    /\ Goto(j, "done")
    /\ UNCHANGED <<defaultInstance, once, initErr>>
    /\ UnchangedByStep

NextRace ==
    \/ \E i \in Initializers :
          \/ InitializeNew(i)
          \/ InitializeSetInstance(i)
          \/ InitializeSetErr(i)
    \/ \E j \in Withers :
          \/ WithOnce(j)
          \/ WithOnceSetInstance(j)
          \/ WithOnceSetErr(j)
          \/ WithReadInstance(j)
          \/ WithReadErr(j)
          \/ WithFrom(j)

SpecRace == InitRace /\ [][NextRace]_vars

(***************************************************************************)
(* The chain calls.                                                        *)
(***************************************************************************)
\* C1: once the carried failure is non-nil, no later call on the result clears
\* it, replaces it by another error, or changes the raw value.
C1_StickyFailure ==
    [][r.err # Nil => (r'.err = r.err /\ r'.value = r.value)]_vars

\* A failed chain with an empty value on which a non-empty Default was then called.
C1_Witness ==
    /\ Len(calls) = 2
    /\ calls[1].op = "Required"
    /\ calls[2].op = "Default"
    /\ calls[2].arg # <<>>
    /\ r.err = ErrRequired(r.key)
    /\ r.value = <<>>

\* C2: on a result with empty raw value and no failure, Required() then Default(d)
\* ends with the failure set and the value still empty, and Default(d) with
\* non-empty d then Required() ends with value d and no failure.
C2_OrderMatters ==
    (r0.value = <<>> /\ r0.err = Nil /\ Len(calls) = 2) =>
        /\ (calls[1].op = "Required" /\ calls[2].op = "Default") =>
               (r.err # Nil /\ r.value = <<>>)
        /\ (calls[1].op = "Default" /\ calls[1].arg # <<>> /\ calls[2].op = "Required") =>
               (r.err = Nil /\ r.value = calls[1].arg)

\* Default(d) then Required() on an empty value, d not empty.
C2_Witness ==
    /\ r0.value = <<>>
    /\ r0.err = Nil
    /\ Len(calls) = 2
    /\ calls[1].op = "Default"
    /\ calls[1].arg # <<>>
    /\ calls[2].op = "Required"
    /\ r.err = Nil

Unsigned(s) == IF s # <<>> /\ s[1] \in {"+", "-"} THEN Tail(s) ELSE s

IsDigits(s) == s # <<>> /\ \A i \in 1..Len(s) : s[i] \in Digits

\* Digits with at most one point and at least one digit.
IsNumber(s) ==
    /\ \A i \in 1..Len(s) : s[i] \in Digits \cup {"."}
    /\ Cardinality({ i \in 1..Len(s) : s[i] = "." }) <= 1
    /\ \E i \in 1..Len(s) : s[i] \in Digits

\* A base-10 integer: an optional sign and digits.
IsIntLit(s) == IsDigits(Unsigned(s))

IntDenoted(s) == MkInt(s[1] = "-", StripZeros(Unsigned(s)))

InInt64(n) ==
    IF n.neg THEN ~NumGT(n.mag, Two63Mag) ELSE ~NumGT(n.mag, MaxInt64Mag)

MaxInt64 == MkInt(FALSE, MaxInt64Mag)
MinInt64 == MkInt(TRUE, Two63Mag)

IsExponent(s) == s = <<>> \/ (s[1] \in {"e", "E"} /\ IsDigits(Unsigned(Tail(s))))

\* A decimal floating-point literal.
IsFloatLit(s) ==
    LET t == Unsigned(s)
    IN  \E p \in 1..Len(t) : IsNumber(Take(t, p)) /\ IsExponent(Drop(t, p))

UnitNames == { <<"n", "s">>, <<"u", "s">>, <<"m", "s">>, <<"s">>, <<"m">>, <<"h">> }

IsGroup(g) == \E n \in 1..(Len(g) - 1) : IsNumber(Take(g, n)) /\ Drop(g, n) \in UnitNames

RECURSIVE IsGroups(_)
IsGroups(t) ==
    t = <<>> \/ \E p \in 2..Len(t) : IsGroup(Take(t, p)) /\ IsGroups(Drop(t, p))

\* A duration literal: 0, or groups of a number and a unit, after an optional sign.
IsDurationLit(s) ==
    LET t == Unsigned(s) IN t = <<"0">> \/ (t # <<>> /\ IsGroups(t))

StrictOps == {"Int", "Float64", "Duration"}

ZeroOf(op) == IF op = "Float64" THEN FloatZero ELSE IntZero

WellFormed(op, v) ==
    CASE op = "Int" -> IsIntLit(v)
      [] op = "Float64" -> IsFloatLit(v)
      [] op = "Duration" -> IsDurationLit(v)

\* a and b are equal when the case of the letters is ignored.
EqualFold(a, b) ==
    /\ Len(a) = Len(b)
    /\ \A i \in 1..Len(a) : LowerChar(a[i]) = LowerChar(b[i])

TruthyTokens == { <<"t", "r", "u", "e">>, <<"1">>, <<"y", "e", "s">>, <<"y">> }

Truthy(v) == \E t \in TruthyTokens : EqualFold(v, t)

\* s without its leading and trailing white space.
Trimmed(s) ==
    LET ns == { i \in 1..Len(s) : ~IsSpace(s[i]) }
    IN  IF ns = {} THEN <<>>
        ELSE SubSeq(s, CHOOSE i \in ns : \A j \in ns : i <= j,
                       CHOOSE i \in ns : \A j \in ns : j <= i)

\* The positions at which d occurs in v (no delimiter of the model overlaps itself).
Occurrences(v, d) == { i \in 1..Len(v) : HasPrefixAt(v, i, d) }

NthOccurrence(v, d, n) ==
    CHOOSE o \in Occurrences(v, d) :
        Cardinality({ x \in Occurrences(v, d) : x < o }) = n - 1

\* The k-th piece of v between occurrences of d.
Piece(v, d, k) ==
    LET first == IF k = 1 THEN 1 ELSE NthOccurrence(v, d, k - 1) + Len(d)
        last  == IF k = Cardinality(Occurrences(v, d)) + 1 THEN Len(v)
                 ELSE NthOccurrence(v, d, k) - 1
    IN  SubSeq(v, first, last)

\* list is the trimmed pieces of v split on delim, "," standing in for "".
IsSliceOf(list, v, delim) ==
    LET d == IF delim = <<>> THEN <<",">> ELSE delim
    IN  /\ Len(list) = Cardinality(Occurrences(v, d)) + 1
        /\ \A k \in 1..Len(list) : list[k] = Trimmed(Piece(v, d, k))

\* m is the map of the entries of v: split on ",", each entry cut at its first
\* ":", key and value trimmed, entries without ":" dropped, the last occurrence of
\* a key winning.
IsMapOf(m, v) ==
    LET n        == Cardinality(Occurrences(v, <<",">>)) + 1
        E(k)     == Piece(v, <<",">>, k)
        colon(k) == CHOOSE i \in 1..Len(E(k)) :
                        E(k)[i] = ":" /\ \A j \in 1..(i - 1) : E(k)[j] # ":"
        kept     == { k \in 1..n : \E i \in 1..Len(E(k)) : E(k)[i] = ":" }
        key(k)   == Trimmed(Take(E(k), colon(k) - 1))
        val(k)   == Trimmed(Drop(E(k), colon(k)))
    IN  /\ DOMAIN m = { key(k) : k \in kept }
        /\ \A k \in kept :
               (\A j \in kept : j > k => key(j) # key(k)) => m[key(k)] = val(k)

Fallback == r.err # Nil \/ r.value = <<>>

C5_TypedDefaults ==
    /\ out.op = "IntDefault" =>
           out.val = IF Fallback \/ Atoi(r.value).err # Nil
                     THEN out.dflt ELSE Atoi(r.value).val
    /\ out.op = "Float64Default" =>
           out.val = IF Fallback \/ ParseFloat(r.value).err # Nil
                     THEN out.dflt ELSE ParseFloat(r.value).val
    /\ out.op = "DurationDefault" =>
           out.val = IF Fallback \/ ParseDuration(r.value).err # Nil
                     THEN out.dflt ELSE ParseDuration(r.value).val

\* IntDefault(d) after Default(s), s unparsable, on an empty value.
C5_Witness ==
    /\ r0.value = <<>>
    /\ r0.err = Nil
    /\ calls = << [op |-> "Default", arg |-> <<"z", "z">>] >>
    /\ out.op = "IntDefault"
    /\ out.val = IntFallback

\* C6 as stated: with no failure carried and a non-empty value, Bool() is true
\* exactly when the value, trimmed of white space and compared without regard to
\* case, is one of true, 1, yes, y; it reports no error.
C6_BoolTrimmed ==
    (out.op = "Bool" /\ r.err = Nil /\ r.value # <<>>) =>
        /\ out.val = Truthy(Trimmed(r.value))
        /\ out.err = Nil

\* C6 as amended: the value is compared as it stands, without trimming: a truthy
\* token with white space before or after it yields false.
C6_BoolUntrimmed ==
    (out.op = "Bool" /\ r.err = Nil /\ r.value # <<>>) =>
        /\ out.val = Truthy(r.value)
        /\ out.err = Nil

\* Bool() called on a truthy token in upper case.
C6_Witness ==
    /\ out.op = "Bool"
    /\ r.err = Nil
    /\ r.value = <<"Y", "E", "S">>
    /\ out.val = TRUE

\* C7: BoolDefault(d), SliceDefault(delim, d) and MapDefault(d) return d exactly
\* when a failure is carried or the value is empty, and otherwise what Bool(),
\* Slice(delim) and Map() return; BoolDefault(true) on a non-empty value that is
\* not truthy returns false.
C7_GuardedDefaults ==
    /\ out.op = "BoolDefault" =>
           out.val = IF Fallback THEN out.dflt ELSE Truthy(r.value)
    /\ out.op = "SliceDefault" =>
           IF Fallback THEN out.val = out.dflt
           ELSE IsSliceOf(out.val, r.value, out.delim)
    /\ out.op = "MapDefault" =>
           IF Fallback THEN out.val = out.dflt ELSE IsMapOf(out.val, r.value)

\* BoolDefault(true) called on a non-empty value that is not truthy.
C7_Witness ==
    /\ out.op = "BoolDefault"
    /\ out.dflt = TRUE
    /\ r.err = Nil
    /\ r.value # <<>>
    /\ ~Truthy(r.value)
    /\ out.val = FALSE

\* C8: Slice(delim) returns an empty list when a failure is carried or the value
\* is empty; otherwise the trimmed pieces of the value split on delim ("," for
\* ""), in order, one more than there are delimiters, empty elements and quote
\* characters kept.
C8_Slice ==
    out.op = "Slice" =>
        IF Fallback THEN out.val = <<>>
        ELSE IsSliceOf(out.val, r.value, out.delim)

\* Slice("") called on a padded element followed by an empty one.
C8_Witness ==
    /\ out.op = "Slice"
    /\ out.delim = <<>>
    /\ r.err = Nil
    /\ r.value = <<" ", "a", ",">>
    /\ out.val = << <<"a">>, <<>> >>

\* C9: Map() returns an empty map when a failure is carried or the value is
\* empty; otherwise the entries between "," cut at their first ":", key and value
\* trimmed, entries without ":" dropped, the last occurrence of a key winning.
C9_Map ==
    out.op = "Map" =>
        IF Fallback THEN out.val = EmptyMap ELSE IsMapOf(out.val, r.value)

\* Map() called on a value in which a key occurs twice.
C9_Witness ==
    /\ out.op = "Map"
    /\ r.err = Nil
    /\ r.value = <<"k", ":", "v", ",", "k", ":", "w">>
    /\ out.val = MapPut(EmptyMap, <<"k">>, <<"w">>)

(***************************************************************************)
(* The terminals read the result and leave it alone.                       *)
(***************************************************************************)
\* What the terminal recorded in o returns on the result res: [val, err].
AnswerOf(o, res) ==
    CASE o.op = "String" -> Ret(ResultString(res), Nil)
      [] o.op = "Int" -> ResultInt(res)
      [] o.op = "IntDefault" -> Ret(ResultIntDefault(res, o.dflt), Nil)
      [] o.op = "Float64" -> ResultFloat64(res)
      [] o.op = "Float64Default" -> Ret(ResultFloat64Default(res, o.dflt), Nil)
      [] o.op = "Bool" -> Ret(ResultBool(res), Nil)
      [] o.op = "BoolDefault" -> Ret(ResultBoolDefault(res, o.dflt), Nil)
      [] o.op = "Duration" -> ResultDuration(res)
      [] o.op = "DurationDefault" -> Ret(ResultDurationDefault(res, o.dflt), Nil)
      [] o.op = "Slice" -> Ret(ResultSlice(res, o.delim), Nil)
      [] o.op = "SliceDefault" -> Ret(ResultSliceDefault(res, o.delim, o.dflt), Nil)
      [] o.op = "Map" -> Ret(ResultMap(res), Nil)
      [] o.op = "MapDefault" -> Ret(ResultMapDefault(res, o.dflt), Nil)

\* C11: every terminal leaves the result's key, raw value and carried failure
\* as they were, and what it returned is what the same call returns on the
\* result as it is afterwards: a terminal called again, after any other
\* terminals, gives the same answer.
C11_TerminalsPure ==
    [][out'.op # "none" =>
          /\ r'.key = r.key /\ r'.value = r.value /\ r'.err = r.err
          /\ out'.val = AnswerOf(out', r').val
          /\ out'.err = AnswerOf(out', r').err]_vars

\* Default("43") on an empty result, then Int, which returned 43.
C11_Witness ==
    /\ out.op = "Int"
    /\ out.err = Nil
    /\ out.val = MkInt(FALSE, <<"4", "3">>)
    /\ Len(calls) = 1
    /\ r0.value = <<>>

(***************************************************************************)
(* Parse.                                                                  *)
(***************************************************************************)
\* Parse has been called, and returned.
Parsed == nparse > 0

\* C12: an argument that is not a pointer to a struct (a struct by value, a
\* pointer to something else, a pointer to a pointer, nil, a nil pointer) is
\* rejected with an error, no variable is read and no field is assigned.
C12_RejectsOtherShapes ==
    (Parsed /\ ~(target.kind = "ptr" /\ target.elem = "struct")) =>
        /\ perr # Nil
        /\ lookups = <<>>
        /\ target.vals = before

\* A struct passed by value while PORT is set.
C12_Witness ==
    /\ Parsed
    /\ target.kind = "struct"
    /\ target.fields # <<>>
    /\ environ[PortKey] = <<"5">>
    /\ perr = ErrExpectPointer

\* Parse was called on a pointer to a struct.
ParsedStruct == Parsed /\ target.kind = "ptr" /\ target.elem = "struct"

\* The field is exported.
Exported(sf) == sf.name[1] \in { UpperLetters[i] : i \in 1..Len(UpperLetters) }

\* The indices of the exported fields, in declaration order.
SettableIndices(fields) ==
    LET IsExported(i) == Exported(fields[i])
    IN  SelectSeq([i \in 1..Len(fields) |-> i], IsExported)

\* The index of the field the error names, 0 when Parse returned nil.
FailedIndex ==
    IF perr = Nil THEN 0
    ELSE CHOOSE i \in 1..Len(target.fields) : target.fields[i].name = perr.key

\* The key of a field: the env tag when it is written and not empty, the
\* field's name in upper case otherwise.
KeyOf(sf) ==
    IF "env" \in DOMAIN sf.tag /\ sf.tag["env"] # <<>>
    THEN sf.tag["env"]
    ELSE ToUpper(sf.name)

\* C13: the keys Parse looks up are, in declaration order, prefix + K for the
\* settable fields it reaches (all of them, or those up to the field that
\* fails), K the env tag when non-empty and the upper-cased name otherwise.
C13_LookupKeys ==
    ParsedStruct =>
        LET idx == SettableIndices(target.fields)
            n   == IF perr = Nil THEN Len(idx)
                   ELSE CHOOSE j \in 1..Len(idx) : idx[j] = FailedIndex
        IN  lookups = [j \in 1..n |-> config.Prefix \o KeyOf(target.fields[idx[j]])]

\* With prefix APP_, a field whose env tag is written empty and a field without
\* tag are looked up under APP_PORT and APP_HOST.
C13_Witness ==
    /\ ParsedStruct
    /\ perr = Nil
    /\ config.Prefix = AppPrefix
    /\ target.fields[1].tag = EnvOnly(<<>>)
    /\ target.fields[2].tag = NoTag
    /\ environ[AppPrefix \o PortKey] # <<>>
    /\ lookups = << <<"A", "P", "P", "_", "P", "O", "R", "T">>,
                    <<"A", "P", "P", "_", "H", "O", "S", "T">>,
                    <<"A", "P", "P", "_", "P", "O", "R", "T">> >>

\* Parse got as far as field i: no field before it failed.
Reached(i) == FailedIndex = 0 \/ i <= FailedIndex

\* The value of the field's variable, and the field's working value: the
\* variable when it is not empty, else the default tag's literal.
VariableOf(sf) == Getenv(environ, config.Prefix \o KeyOf(sf))

Working(sf) ==
    IF VariableOf(sf) # <<>> THEN VariableOf(sf)
    ELSE IF "default" \in DOMAIN sf.tag THEN sf.tag["default"]
    ELSE <<>>

\* C14: a settable field Parse reaches is set from the variable when that is
\* non-empty and from the default tag otherwise; with an empty working value
\* it is skipped: no error, and the value it had before the call.
C14_WorkingValue ==
    ParsedStruct =>
        \A i \in 1..Len(target.fields) :
            LET sf == target.fields[i]
            IN  (Exported(sf) /\ Reached(i)) =>
                    IF Working(sf) = <<>>
                    THEN FailedIndex # i /\ target.vals[i] = before[i]
                    ELSE LET got == SetFieldValue(before[i], sf, Working(sf))
                         IN  /\ FailedIndex = i <=> got.err # Nil
                             /\ target.vals[i] = got.val

\* PORT is not set and the int field's default is "8080": 8080; HOST is "5" and
\* the float field's default is "1.5": 5; the last field, read from PORT
\* without default, keeps the "old" it held.
C14_Witness ==
    /\ ParsedStruct
    /\ perr = Nil
    /\ config.Prefix = <<>>
    /\ environ[PortKey] = <<>>
    /\ environ[HostKey] = <<"5">>
    /\ target.fields[1].tag = EnvDefault(PortKey, <<"8", "0", "8", "0">>)
    /\ target.fields[2].tag = EnvDefault(HostKey, <<"1", ".", "5">>)
    /\ before = SetValues(target.fields)
    /\ target.vals[1] = MkInt(FALSE, <<"8", "0", "8", "0">>)
    /\ target.vals[2] = MkFloat(FALSE, <<"5">>, 0)
    /\ target.vals[3] = <<"o", "l", "d">>

\* The types setFieldValue has no coercion for.
UnsupportedType(t) ==
    \/ t.kind \in {"array", "chan", "func", "struct"}
    \/ t.kind = "slice" /\ t.elem # "string"
    \/ t.kind = "map" /\ (t.key # "string" \/ t.elem # "string")

\* C15 as stated: every settable field of unsupported type that Parse reaches
\* makes it return an error naming the field.
C15_UnsupportedFails ==
    ParsedStruct =>
        \A i \in 1..Len(target.fields) :
            LET sf == target.fields[i]
            IN  (Exported(sf) /\ Reached(i) /\ UnsupportedType(sf.type)) =>
                    /\ FailedIndex = i
                    /\ perr.kind = "failed to set field"

\* C15, amended: a settable field of unsupported type that Parse reaches makes
\* it return an error naming the field when the field's working value is not
\* empty; with an empty working value the field is skipped without error.
C15_UnsupportedFailsIfValue ==
    ParsedStruct =>
        \A i \in 1..Len(target.fields) :
            LET sf == target.fields[i]
            IN  (Exported(sf) /\ Reached(i) /\ UnsupportedType(sf.type)) =>
                    IF Working(sf) = <<>>
                    THEN FailedIndex # i /\ target.vals[i] = before[i]
                    ELSE /\ FailedIndex = i
                         /\ perr.kind = "failed to set field"
                         /\ perr.key = sf.name

\* A channel field whose variable HOST is "5": Parse fails on it.
C15_Witness ==
    /\ ParsedStruct
    /\ target.fields[2].type.kind = "chan"
    /\ environ[HostKey] = <<"5">>
    /\ config.Prefix = <<>>
    /\ perr.kind = "failed to set field"
    /\ perr.key = HostName
    /\ perr.text = <<"unsupported type", "chan">>

\* C16: Parse never assigns inside a nested struct: a field of struct type
\* holds after the call what it held before, whatever the environment holds
\* for the keys of its inner fields.
C16_NotRecursive ==
    Parsed =>
        \A i \in 1..Len(target.fields) :
            target.fields[i].type.kind = "struct" => target.vals[i] = before[i]

\* PORT, the key of the inner field, is "5": Parse returns nil, the string
\* field read from PORT is "5" and the nested struct's field is still empty.
C16_Witness ==
    /\ ParsedStruct
    /\ perr = Nil
    /\ config.Prefix = <<>>
    /\ target.fields[2].type = InnerConfig
    /\ KeyOf(target.fields[2].type.fields[1]) = PortKey
    /\ environ[PortKey] = <<"5">>
    /\ target.vals[3] = <<"5">>
    /\ target.vals[2] = << <<>> >>

\* What setFieldValue makes of field j given the environment: [val, err].
Coerced(j) ==
    SetFieldValue(before[j], target.fields[j], Working(target.fields[j]))

\* Field j is one Parse tries to set: settable, with a working value.
Tried(j) == Exported(target.fields[j]) /\ Working(target.fields[j]) # <<>>

\* C17: when Parse returns an error it names the first field, in declaration
\* order, whose coercion fails; the fields before it hold what Parse assigned
\* to them (or, not tried, what they held), and the failing field and every
\* field after it hold what they held before the call.
C17_FailFast ==
    (ParsedStruct /\ perr # Nil) =>
        LET i == FailedIndex
        IN  /\ perr.kind = "failed to set field"
            /\ perr.key = target.fields[i].name
            /\ Tried(i) /\ Coerced(i).err # Nil
            /\ \A j \in 1..(i - 1) :
                  IF Tried(j)
                  THEN Coerced(j).err = Nil /\ target.vals[j] = Coerced(j).val
                  ELSE target.vals[j] = before[j]
            /\ \A j \in i..Len(target.fields) : target.vals[j] = before[j]
            /\ lookups[Len(lookups)] = config.Prefix \o KeyOf(target.fields[i])

\* PORT is "5" and HOST is "-1": the int field becomes 5, the uint8 field
\* fails and keeps its 7, the last field, read from PORT, keeps its "old".
C17_Witness ==
    /\ ParsedStruct
    /\ config.Prefix = <<>>
    /\ environ[PortKey] = <<"5">>
    /\ environ[HostKey] = <<"-", "1">>
    /\ target.fields[1].type.kind = "int"
    /\ target.fields[2].type.kind = "uint8"
    /\ before = SetValues(target.fields)
    /\ perr.key = HostName
    /\ target.vals = << MkInt(FALSE, <<"5">>), MkInt(FALSE, <<"7">>), <<"o", "l", "d">> >>

\* C18: a boolean field with a non-empty working value never makes Parse
\* fail: it is set to true when the value is, whatever its case, one of
\* true, 1, yes, y, and to false for every other value.
C18_BoolNeverFails ==
    ParsedStruct =>
        \A i \in 1..Len(target.fields) :
            LET sf == target.fields[i]
            IN  (sf.type.kind = "bool" /\ Tried(i) /\ Reached(i)) =>
                    /\ FailedIndex # i
                    /\ target.vals[i] = Truthy(Working(sf))

\* HOST is "maybe": the boolean field, true before, is false and Parse
\* returns nil.
C18_Witness ==
    /\ ParsedStruct
    /\ perr = Nil
    /\ config.Prefix = <<>>
    /\ target.fields[2].type.kind = "bool"
    /\ environ[HostKey] = <<"m", "a", "y", "b", "e">>
    /\ before[2] = TRUE
    /\ target.vals[2] = FALSE

\* A signed integer field that is not a duration.
PlainInt64(t) == t.kind \in {"int", "int64"} /\ t.name # "time.Duration"

\* C19: the grammar follows the field's declared type.  A duration field is
\* set exactly from the duration literals (a bare integer other than 0 is an
\* error); a plain 64-bit integer field is set exactly from the base-10
\* integers of 64 bits, to the integer denoted (a literal with a unit is an
\* error).
C19_GrammarByType ==
    ParsedStruct =>
        \A i \in 1..Len(target.fields) :
            LET sf == target.fields[i]
                w  == Working(sf)
            IN  (Tried(i) /\ Reached(i)) =>
                    /\ sf.type.name = "time.Duration" =>
                          /\ FailedIndex = i <=> ~IsDurationLit(w)
                          /\ FailedIndex # i => target.vals[i] = ParseDuration(w).val
                          /\ (IsIntLit(w) /\ Unsigned(w) # <<"0">>) => FailedIndex = i
                    /\ PlainInt64(sf.type) =>
                          /\ FailedIndex = i <=> ~(IsIntLit(w) /\ InInt64(IntDenoted(w)))
                          /\ FailedIndex # i => target.vals[i] = IntDenoted(w)
                          /\ (IsDurationLit(w) /\ ~IsIntLit(w)) => FailedIndex = i

\* PORT is "5s": the duration field is 5 seconds, and the int64 field read
\* from the same variable fails.
C19_Witness ==
    /\ ParsedStruct
    /\ config.Prefix = <<>>
    /\ target.fields = TimeoutAndCount
    /\ environ[PortKey] = <<"5", "s">>
    /\ target.vals[1] = MkInt(FALSE, <<"5", "0", "0", "0", "0", "0", "0", "0", "0", "0">>)
    /\ perr.key = <<"C", "o", "u", "n", "t">>
    /\ perr.text = <<"invalid integer value", "invalid syntax">>

\* The result Config.Key returns for a variable that holds v.
KeyResult(v) == [key |-> TestKey, value |-> v, err |-> Nil]

\* C20: on every non-empty working value Parse and the accessor chain agree:
\* a bool field is set to what Bool() returns, a []string field to what
\* Slice(",") returns and a map[string]string field to what Map() returns.
C20_ParseAgreesWithChain ==
    ParsedStruct =>
        \A i \in 1..Len(target.fields) :
            LET t  == target.fields[i].type
                rv == KeyResult(Working(target.fields[i]))
            IN  (Tried(i) /\ Reached(i)) =>
                    /\ t.kind = "bool" =>
                          FailedIndex # i /\ target.vals[i] = ResultBool(rv)
                    /\ (t.kind = "slice" /\ t.elem = "string") =>
                          FailedIndex # i /\ target.vals[i] = ResultSlice(rv, <<",">>)
                    /\ (t.kind = "map" /\ t.key = "string" /\ t.elem = "string") =>
                          FailedIndex # i /\ target.vals[i] = ResultMap(rv)

\* HOST is " a,": the []string field holds "a" and "", as Slice(",") returns.
C20_Witness ==
    /\ ParsedStruct
    /\ perr = Nil
    /\ target.fields[1].type = SliceOf("string")
    /\ environ[HostKey] = <<" ", "a", ",">>
    /\ target.vals[1] = << <<"a">>, <<>> >>
    /\ target.vals[1] = ResultSlice(KeyResult(environ[HostKey]), <<",">>)

\* C21: an unexported field is ignored whatever its type and whatever the
\* environment holds for its key: it keeps its value, no variable is looked up
\* for it and the error never names it; the fields after it are processed as
\* if it were not there.
C21_UnexportedIgnored ==
    ParsedStruct =>
        \A i \in 1..Len(target.fields) :
            ~Exported(target.fields[i]) =>
                /\ target.vals[i] = before[i]
                /\ FailedIndex # i
                /\ Len(lookups) <= Len(SettableIndices(target.fields))
                /\ \A j \in (i + 1)..Len(target.fields) :
                      (Tried(j) /\ Reached(j) /\ FailedIndex # j) =>
                          /\ Coerced(j).err = Nil
                          /\ target.vals[j] = Coerced(j).val
                /\ (\E j \in (i + 1)..Len(target.fields) :
                        Tried(j) /\ Coerced(j).err # Nil) => perr # Nil

\* The first field is an unexported array and PORT is "5": the field keeps
\* what it held, and the last field, read from PORT as well, becomes "5".
C21_Witness ==
    /\ ParsedStruct
    /\ perr = Nil
    /\ config.Prefix = <<>>
    /\ ~Exported(target.fields[1])
    /\ target.fields[1].type.kind = "array"
    /\ environ[PortKey] = <<"5">>
    /\ before = SetValues(target.fields)
    /\ target.vals[1] = before[1]
    /\ target.vals[3] = <<"5">>
    /\ lookups = << HostKey, PortKey >>

(***************************************************************************)
(* The mode, the files and the singleton.                                  *)
(***************************************************************************)
\* The file exists.
Exists(f) == files[f] # "absent"

\* C22: determineDefaultMode returns APP_ENV as it is when it is not empty,
\* supported mode or not; otherwise development when the three files exist,
\* staging when .env and .env.staging exist and .env.development does not,
\* production when .env exists and .env.staging does not, and development
\* when .env does not exist.
C22_DefaultMode ==
    ret.op = "determineDefaultMode" =>
        /\ appEnv # "" => ret.val = appEnv
        /\ appEnv = "" =>
            /\ (Exists(EnvFile) /\ Exists(StagingFile) /\ Exists(DevelopmentFile))
                    => ret.val = "development"
            /\ (Exists(EnvFile) /\ Exists(StagingFile) /\ ~Exists(DevelopmentFile))
                    => ret.val = "staging"
            /\ (Exists(EnvFile) /\ ~Exists(StagingFile)) => ret.val = "production"
            /\ ~Exists(EnvFile) => ret.val = "development"

\* APP_ENV is not set and the three files exist: development.
C22_Witness ==
    /\ ret.op = "determineDefaultMode"
    /\ appEnv = ""
    /\ \A f \in FileNames : files[f] = "good"
    /\ ret.val = "development"

\* The mode New loads: the mode of the last WithMode option, or the default.
RECURSIVE ModeAfter(_, _)
ModeAfter(mode, options) ==
    IF options = <<>> THEN mode
    ELSE ModeAfter(IF Head(options).field = "Mode" THEN Head(options).mode ELSE mode,
                   Tail(options))

Supported == {"production", "staging", "development"}

\* The file Load reads for a supported mode.
Overlay(mode) ==
    CASE mode = "production" -> ".env"
      [] mode = "staging" -> ".env.staging"
      [] mode = "development" -> ".env.development"

\* Load on this mode must fail: the mode is not supported, or it is production
\* and .env is missing.
MustFail(mode) ==
    \/ mode \notin Supported
    \/ mode = "production" /\ ~Exists(".env")

\* C23: Load returns an error for every mode other than production, staging
\* and development, and for production when .env is missing; for staging and
\* development a missing file is no error and the environment stays as it
\* is; New returns (nil, error) whenever Load fails: on these modes, and
\* whenever it returns an error at all.
C23_LoadErrors ==
    [][ /\ (hist'.n # hist.n /\ ret'.op = "Load") =>
            LET mode == heap[ret'.ptr].Mode
            IN  /\ MustFail(mode) => ret'.err # Nil
                /\ (mode \in {"staging", "development"} /\ ~Exists(Overlay(mode))) =>
                        (ret'.err = Nil /\ environ' = environ)
                /\ ret'.err # Nil => environ' = environ
        /\ (hist'.n # hist.n /\ ret'.op = "New") =>
            LET mode == ModeAfter(DetermineDefaultMode(appEnv, files), ret'.options)
            IN  /\ MustFail(mode) => (ret'.ptr = 0 /\ ret'.err # Nil)
                /\ ret'.err # Nil => (ret'.ptr = 0 /\ heap' = heap)
                /\ ret'.err = Nil => (ret'.ptr # 0 /\ heap'[ret'.ptr].Mode = mode)
                /\ (mode \in {"staging", "development"} /\ ~Exists(Overlay(mode))) =>
                        (ret'.err = Nil /\ environ' = environ)
      ]_vars

\* New(WithMode("production")) without .env, while .env.staging exists and
\* PORT is not set: nil and the error that .env is not found.
C23_Witness ==
    /\ ret.op = "New"
    /\ ret.options = <<WithMode("production")>>
    /\ files[".env"] = "absent"
    /\ files[".env.staging"] = "good"
    /\ ret.ptr = 0
    /\ ret.err = ErrFileNotFound(".env")
    /\ environ[PortKey] = <<>>

\* The options applied to a Mode and a Prefix one field at a time: the last
\* option for the field, or the field as it was.
RECURSIVE PrefixAfter(_, _)
PrefixAfter(prefix, options) ==
    IF options = <<>> THEN prefix
    ELSE PrefixAfter(IF Head(options).field = "Prefix" THEN Head(options).prefix
                     ELSE prefix, Tail(options))

\* C24: From and With leave every Config there is as it is, the receiver
\* and the default instance among them, and return a new Config: the Mode
\* and Prefix of the Config they start from, with the last option for each
\* field applied; a From on a Config that From or With returned does the same.
C24_FromCopies ==
    [][ /\ (hist'.n # hist.n /\ ret'.op = "From") =>
            /\ \A p \in 1..Len(heap) : heap'[p] = heap[p]
            /\ ret'.ptr = Len(heap) + 1
            /\ Len(heap') = Len(heap) + 1
            /\ heap'[ret'.ptr].Mode = ModeAfter(heap[ret'.val].Mode, ret'.options)
            /\ heap'[ret'.ptr].Prefix = PrefixAfter(heap[ret'.val].Prefix, ret'.options)
        /\ (hist'.n # hist.n /\ ret'.op = "With" /\ ret'.val # 0) =>
            /\ \A p \in 1..Len(heap) : heap'[p] = heap[p]
            /\ defaultInstance' = ret'.val
            /\ ret'.ptr \notin 1..Len(heap)
            /\ ret'.ptr # defaultInstance'
            /\ heap'[ret'.ptr].Mode =
                    ModeAfter(heap'[defaultInstance'].Mode, ret'.options)
            /\ heap'[ret'.ptr].Prefix =
                    PrefixAfter(heap'[defaultInstance'].Prefix, ret'.options)
      ]_vars

\* From with three options on a Config that With(WithPrefix("APP_")) returned:
\* the last mode wins, and the Config it was called on keeps its mode.
C24_Witness ==
    /\ ret.op = "From"
    /\ ret.options = <<WithMode("staging"), WithPrefix(AppPrefix), WithMode("development")>>
    /\ defaultInstance # 0
    /\ ret.val # defaultInstance
    /\ ret.val > 1
    /\ heap[ret.val] = [Mode |-> "production", Prefix |-> AppPrefix]
    /\ heap[ret.ptr] = [Mode |-> "development", Prefix |-> AppPrefix]
    /\ heap[defaultInstance] = [Mode |-> "production", Prefix |-> <<>>]

\* The string is a base-10 integer of the int64 range.
IsInt64Lit(v) == IsIntLit(v) /\ InInt64(IntDenoted(v))

\* The variable a call on the Config p reads for its key.
Read(p, key) == Getenv(environ, heap[p].Prefix \o key)

\* A default was handed to the last call.
Given == Len(ret.dv) > 0

WithError(v) ==
    IF ~IsIntLit(v) THEN IntZero
    ELSE IF IntDenoted(v).neg THEN MinInt64 ELSE MaxInt64

PackageOps ==
    {"Get", "GetInt", "GetInt64", "GetFloat64", "GetDuration", "GetBool", "GetSlice",
     "GetMap", "GetMode", "IsProduction", "IsStaging", "IsDevelopment", "Int", "Key",
     "Parse", "With"}

\* C26: once an Initialize has returned nil, a later package-level call uses
\* the Config that the most recent successful Initialize built, its Mode and
\* its Prefix, whether or not a package-level function was called before
\* that Initialize.
C26_InitializeWins ==
    (hist.lastInit # 0 /\ ret.op \in PackageOps) =>
        /\ initErr = Nil
        /\ defaultInstance = hist.lastInit
        /\ ret.op = "GetMode" => ret.val = heap[hist.lastInit].Mode
        /\ ret.op = "Get" =>
              ret.val = ConfigGet(heap[hist.lastInit], environ, ret.key, ret.dv)
        /\ ret.op = "Key" => r0.key = heap[hist.lastInit].Prefix \o ret.key
        /\ ret.op = "With" => ret.val = hist.lastInit

\* Every process has returned.
AllDone == pc # <<>> /\ \A i \in 1..Len(pc) : pc[i] = "done"

\* C27: with the production file present and the singleton untouched,
\* however the calls of Initialize(WithMode(Staging)) and With(WithPrefix(p))
\* interleave, each Initialize returns nil, each With returns a Config, not
\* nil, and when all have returned the default instance is not nil and its
\* Mode is staging.
C27_RaceEndsStaging ==
    /\ \A i \in 1..Len(pc) :
          pc[i] = "done" =>
              /\ ~loc[i].panic
              /\ i \in Initializers => loc[i].err = Nil
              /\ i \in Withers => loc[i].out # 0
    /\ AllDone => (defaultInstance # 0 /\ heap[defaultInstance].Mode = "staging")

\* The zero or empty value a package-level function falls back on.
ZeroOfOp(op) ==
    CASE op \in {"Get", "GetSlice"} -> <<>>
      [] op = "GetBool" -> FALSE
      [] op = "GetMap" -> EmptyMap
      [] op \in {"GetInt", "GetInt64", "GetDuration"} -> IntZero
      [] op = "GetFloat64" -> FloatZero

C30_FailureMeansEmpty ==
    /\ r.err # Nil => (r.value = <<>> /\ ResultString(r) = <<>>)
    /\ (out.op = "String" /\ r.err # Nil) => out.val = <<>>

\* PORT is "5" and the singleton has failed: Key("PORT").Default("x").String()
\* is "", and the result carries the init error.
C30_Witness ==
    /\ ret.op = "Key"
    /\ environ[PortKey] = <<"5">>
    /\ r.err = ErrInvalidMode("testing")
    /\ calls = << [op |-> "Default", arg |-> <<"x">>] >>
    /\ out.op = "String"
    /\ out.val = <<>>


\* The number a numeric field's working string denotes: the 64-bit value the
\* field's grammar reads from it.
Denoted(sf, value) ==
    IF sf.type.kind \in IntKinds THEN ParseInt(value)
    ELSE IF sf.type.kind \in UintKinds THEN StrconvParseUint(value)
    ELSE ParseFloat(value)

\* A signed, unsigned or floating-point field that is not a duration.
Numeric(sf) ==
    /\ sf.type.kind \in IntKinds \cup UintKinds \cup {"float64"}
    /\ ~IsDurationType(sf.type)

\* C29: after a Parse that returns nil, every numeric field that was assigned
\* holds exactly the number its working string denotes; a value that does not
\* fit the field's width ("300" for int8, "256" for uint8) is an error, never
\* a wrapped or truncated value.
C29_ExactNumbers ==
    (ParsedStruct /\ perr = Nil) =>
        \A i \in 1..Len(target.fields) :
            (Exported(target.fields[i]) /\ Numeric(target.fields[i])
                /\ Working(target.fields[i]) # <<>>) =>
                    /\ Denoted(target.fields[i], Working(target.fields[i])).err = Nil
                    /\ target.vals[i] =
                           Denoted(target.fields[i], Working(target.fields[i])).val

====
